---------------------------- MODULE Spec2Model ----------------------------
(***************************************************************************)
(* A model of llm-cli's model registry and cost calculator (src/models.ts).*)
(*                                                                         *)
(* Numbers.  Prices are written in the source in dollars per million       *)
(* tokens with at most three decimals (0.175, 0.005, ...).  Here a price   *)
(* is the integer number of thousandths of a dollar (3 -> 3000,            *)
(* 0.3 -> 300, search_cost 0.01 -> 10), and a cost is the exact numerator  *)
(* over 1000 * M, i.e. billionths of a dollar:                             *)
(*     tokenCost / M + search_cost * searches                              *)
(*  =  (tokenCost + M * search_cost * searches) / M.                       *)
(* The arithmetic is exact; the rounding of IEEE doubles is not modelled.  *)
(*                                                                         *)
(* Strings are TLA+ strings; Len, SubSeq and \o act on them character by   *)
(* character.                                                              *)
(***************************************************************************)
EXTENDS Integers, Sequences, FiniteSets, TLC

VARIABLES
  model,      \* getCost: the Model argument (its price fields)
  tokens,     \* getCost: the TokenCounts argument
  searches,   \* getCost: the optional third argument
  cost,       \* getCost: the returned cost, once returned
  costPc,     \* "idle" | "call" | "done"
  models,     \* resolveModel: the catalog (module constant `models`)
  modelArg,   \* resolveModel: the argument, string | undefined
  resolved,   \* resolveModel: what the call produced
  resolvePc,  \* "idle" | "call" | "done"
  provider,   \* parseTools: the provider argument
  tools,      \* parseTools: the tools argument, string[]
  parsed,     \* parseTools: what the call produced
  toolsPc,    \* "idle" | "call" | "done"
  sendModel,  \* createMessage: the model the message goes to
  env,        \* the environment variables that are set
  reply,      \* the provider's response, once it has answered
  netCalls,   \* requests issued to the provider
  response,   \* createMessage: what the call produced
  sendPc,     \* "idle" | "call" | "await" | "done"
  opts,       \* main action: the command-line options
  stored,     \* the history in localStorage
  history,    \* main action: the history in memory
  flowModel,  \* main action: the resolved model
  flowTools,  \* main action: the parsed tools
  flowError,  \* main action: the error raised or printed
  flowPc,     \* "idle" | "start" | ... | "done" | "failed" | "rejected"
  bgTask,     \* chat.backgroundTask, when there is one
  remote,     \* the status of the run at the provider
  observed,   \* resume: the last status observed
  polls,      \* pollStatus calls made
  bgOut,      \* resume: what it yielded
  cancelState, \* the cancellation request: "none", "pending", "acked", "failed"
  bgPc,     \* "idle" | "new" | "waiting" | "polling" | "resumed" | ...
  messageSpec, \* the spec argument of parseMessageSpec
  messageCount, \* the msgCount argument
  specOut,    \* what parseMessageSpec returned or threw
  specPc,   \* idle, call, done
  gemModel,   \* the catalog entry geminiCreateMessage is called with
  gemTokens,  \* the token counts of the response
  gemCost,    \* the cost geminiCreateMessage reports
  gemPc,    \* idle, call, done
  sumKey,     \* whether GROQ_API_KEY is set
  sumGiven,   \* the history genMissingSummaries is called with
  sumHistory, \* that history in memory, as the calls change it
  sumOutcomes, \* per chat, what its request ends with
  sumCalls,   \* per chat: none, pending, fulfilled, rejected
  sumStored,  \* the stored history
  sumPc       \* idle, call, awaiting, written, thrown, skipped

costVars == <<model, tokens, searches, cost, costPc>>
resolveVars == <<models, modelArg, resolved, resolvePc>>
toolsVars == <<provider, tools, parsed, toolsPc>>
sendVars == <<sendModel, env, reply, netCalls, response, sendPc>>
flowVars == <<opts, stored, history, flowModel, flowTools, flowError, flowPc>>
bgVars == <<bgTask, remote, observed, polls, bgOut, cancelState, bgPc>>
specVars == <<messageSpec, messageCount, specOut, specPc>>
gemVars == <<gemModel, gemTokens, gemCost, gemPc>>
sumVars == <<sumKey, sumGiven, sumHistory, sumOutcomes, sumCalls, sumStored, sumPc>>
vars == <<costVars, resolveVars, toolsVars, sendVars, flowVars, bgVars, specVars, gemVars, sumVars>>

----------------------------------------------------------------------------
(* Optional values: `x?: number`, `string | undefined`, a defaulted        *)
(* parameter.  def = FALSE is undefined.                                   *)

None == [def |-> FALSE, val |-> 0]
Some(v) == [def |-> TRUE, val |-> v]
NoString == [def |-> FALSE, val |-> ""]

\* JavaScript truthiness of an optional number: undefined and 0 are falsy.
Truthy(o) == o.def /\ o.val # 0

\* `o ?? d`
Coalesce(o, d) == IF o.def THEN o.val ELSE d

----------------------------------------------------------------------------
(* Bounds of the model.                                                    *)

MaxTokens == 3
MaxSearches == 2
MaxQueryLen == 6
MaxTools == 2
MaxUsage == 1
MaxPolls == 3
MaxParts == 3
MaxMsgCount == 3
MaxChats == 2

----------------------------------------------------------------------------
(* getCost                                                                 *)

M == 1000000

\* A cache-hit branch whose uncached part is subtracted the wrong way round.
tokenCostSwapped(m, t) ==
  IF Truthy(m.input_cached) /\ Truthy(t.input_cache_hit)
    THEN (m.input_cached.val * t.input_cache_hit.val)
         + (m.input * (t.input_cache_hit.val - t.input)) + (m.output * t.output)
    ELSE (m.input * t.input) + (m.output * t.output)

\* A cache-hit branch taken on the hit count alone, a missing price read as 0.
tokenCostHitOnly(m, t) ==
  IF Truthy(t.input_cache_hit)
    THEN (Coalesce(m.input_cached, 0) * t.input_cache_hit.val)
         + (m.input * (t.input - t.input_cache_hit.val)) + (m.output * t.output)
    ELSE (m.input * t.input) + (m.output * t.output)

\* const tokenCost = input_cached && tokens.input_cache_hit ? ... : ...
tokenCost(m, t) ==
  IF Truthy(m.input_cached) /\ Truthy(t.input_cache_hit)
    THEN (m.input_cached.val * t.input_cache_hit.val)
         + (m.input * (t.input - t.input_cache_hit.val)) + (m.output * t.output)
    ELSE (m.input * t.input) + (m.output * t.output)

\* getCost with the search term left out.
getCostNoSearch(m, t, s) == tokenCost(m, t)

\* getCost with `searches = 1` as the parameter's default.
getCostDefaultOne(m, t, s) ==
  tokenCost(m, t) + M * Coalesce(m.search_cost, 0) * Coalesce(s, 1)

\* export function getCost(model, tokens, searches = 0)
\*   return tokenCost / M + (search_cost ?? 0) * searches
getCost(m, t, s) ==
  tokenCost(m, t) + M * Coalesce(m.search_cost, 0) * Coalesce(s, 0)

\* The Model values getCost is applied to: the price shapes of the catalog
\* (cached price present or absent, search cost absent, free or charged)
\* and of the tests' ad-hoc models.
InputPrices == {0, 800, 3000}
OutputPrices == {0, 15000}
CachedPrices == {None, Some(0), Some(80), Some(300)}
SearchCosts == {None, Some(0), Some(10)}

Models ==
  [input : InputPrices, output : OutputPrices,
   input_cached : CachedPrices, search_cost : SearchCosts]

TokenCounts ==
  [input : 0..MaxTokens, output : 0..MaxTokens,
   input_cache_hit : {None} \cup {Some(n) : n \in 0..MaxTokens}]

SearchArgs == {None} \cup {Some(n) : n \in 0..MaxSearches}

NoModel == [input |-> 0, output |-> 0, input_cached |-> None, search_cost |-> None]
NoTokens == [input |-> 0, output |-> 0, input_cache_hit |-> None]

CostIdle ==
  /\ model = NoModel
  /\ tokens = NoTokens
  /\ searches = None
  /\ cost = None
  /\ costPc = "idle"

CostCall ==
  /\ model \in Models
  /\ tokens \in TokenCounts
  /\ searches \in SearchArgs
  /\ cost = None
  /\ costPc = "call"

GetCost ==
  /\ costPc = "call"
  /\ cost' = Some(getCost(model, tokens, searches))
  /\ costPc' = "done"
  /\ UNCHANGED <<model, tokens, searches, resolveVars, toolsVars, sendVars, flowVars, bgVars, specVars, gemVars, sumVars>>

----------------------------------------------------------------------------
(* The catalog.  src/models.ts holds three revisions of the `models`       *)
(* array; resolveModel is the same function in all three.  An entry keeps  *)
(* the fields resolveModel reads; `default?: true` is FALSE when absent.   *)

modelsRev1 ==
  <<
    [provider |-> "anthropic", key |-> "claude-3-7-sonnet-latest", id |-> "3.7-sonnet", default |-> FALSE],
    [provider |-> "anthropic", key |-> "claude-3-5-haiku-latest", id |-> "3.5-haiku", default |-> FALSE],
    [provider |-> "google", key |-> "gemini-2.5-pro-preview-05-06", id |-> "gemini-2.5-pro", default |-> TRUE],
    [provider |-> "google", key |-> "gemini-2.5-flash-preview-04-17", id |-> "gemini-2.5-flash", default |-> FALSE],
    [provider |-> "google", key |-> "gemini-2.5-flash-preview-04-17", id |-> "gemini-2.5-flash-thinking", default |-> FALSE],
    [provider |-> "openai", key |-> "gpt-4.1", id |-> "gpt-4.1", default |-> FALSE],
    [provider |-> "openai", key |-> "gpt-4.1-mini", id |-> "gpt-4.1-mini", default |-> FALSE],
    [provider |-> "openai", key |-> "gpt-4.5-preview", id |-> "gpt-4.5", default |-> FALSE],
    [provider |-> "openai", key |-> "o4-mini", id |-> "o4-mini", default |-> FALSE],
    [provider |-> "deepseek", key |-> "deepseek-chat", id |-> "deepseek-v3", default |-> FALSE],
    [provider |-> "deepseek", key |-> "deepseek-reasoner", id |-> "deepseek-r1", default |-> FALSE],
    [provider |-> "groq", key |-> "meta-llama/llama-4-scout-17b-16e-instruct", id |-> "llama-4-scout", default |-> FALSE],
    [provider |-> "groq", key |-> "meta-llama/llama-4-maverick-17b-128e-instruct", id |-> "llama-4-maverick", default |-> FALSE],
    [provider |-> "groq", key |-> "llama-3.3-70b-versatile", id |-> "groq-llama", default |-> FALSE],
    [provider |-> "cerebras", key |-> "llama-3.3-70b", id |-> "cerebras-llama", default |-> FALSE],
    [provider |-> "cerebras", key |-> "llama-4-scout", id |-> "cerebras-scout", default |-> FALSE]
  >>

modelsRev2 ==
  <<
    [provider |-> "anthropic", key |-> "claude-sonnet-4-20250514", id |-> "sonnet-4", default |-> FALSE],
    [provider |-> "anthropic", key |-> "claude-opus-4-20250514", id |-> "opus-4", default |-> FALSE],
    [provider |-> "google", key |-> "gemini-2.5-pro", id |-> "gemini-2.5-pro", default |-> TRUE],
    [provider |-> "google", key |-> "gemini-2.5-flash", id |-> "gemini-2.5-flash", default |-> FALSE],
    [provider |-> "google", key |-> "gemini-2.5-flash-lite", id |-> "gemini-2.5-flash-lite", default |-> FALSE],
    [provider |-> "xai", key |-> "grok-4", id |-> "grok-4", default |-> FALSE],
    [provider |-> "openai", key |-> "o4-mini", id |-> "o4-mini", default |-> FALSE],
    [provider |-> "deepseek", key |-> "deepseek-chat", id |-> "deepseek-v3", default |-> FALSE],
    [provider |-> "deepseek", key |-> "deepseek-reasoner", id |-> "deepseek-r1", default |-> FALSE],
    [provider |-> "groq", key |-> "moonshotai/kimi-k2-instruct", id |-> "groq-kimi-k2", default |-> FALSE],
    [provider |-> "cerebras", key |-> "qwen-3-235b-a22b-instruct-2507", id |-> "qwen-3-235b", default |-> FALSE],
    [provider |-> "cerebras", key |-> "qwen-3-32b", id |-> "qwen-3-32b", default |-> FALSE]
  >>

modelsRev3 ==
  <<
    [provider |-> "anthropic", key |-> "claude-sonnet-4-5", id |-> "sonnet-4.5", default |-> FALSE],
    [provider |-> "anthropic", key |-> "claude-haiku-4-5", id |-> "haiku-4.5", default |-> FALSE],
    [provider |-> "anthropic", key |-> "claude-opus-4-5", id |-> "opus-4.5", default |-> FALSE],
    [provider |-> "google", key |-> "gemini-3-pro-preview", id |-> "gemini-3-pro", default |-> FALSE],
    [provider |-> "google", key |-> "gemini-3-flash-preview", id |-> "gemini-3-flash", default |-> FALSE],
    [provider |-> "google", key |-> "gemini-flash-lite-latest", id |-> "gemini-2.5-flash-lite", default |-> FALSE],
    [provider |-> "openai", key |-> "gpt-5.2", id |-> "gpt-5.2", default |-> TRUE],
    [provider |-> "openai", key |-> "gpt-5.2-pro", id |-> "gpt-5.2-pro", default |-> FALSE],
    [provider |-> "openai", key |-> "gpt-5-mini", id |-> "gpt-5-mini", default |-> FALSE],
    [provider |-> "openai", key |-> "gpt-5-nano", id |-> "gpt-5-nano", default |-> FALSE],
    [provider |-> "deepseek", key |-> "deepseek-chat", id |-> "deepseek-v3.2", default |-> FALSE],
    [provider |-> "deepseek", key |-> "deepseek-reasoner", id |-> "deepseek-v3.2-thinking", default |-> FALSE],
    [provider |-> "groq", key |-> "moonshotai/kimi-k2-instruct-0905", id |-> "kimi-k2", default |-> FALSE],
    [provider |-> "cerebras", key |-> "zai-glm-4.6", id |-> "glm-4.6", default |-> FALSE],
    [provider |-> "cerebras", key |-> "gpt-oss-120b", id |-> "gpt-oss-120b", default |-> FALSE]
  >>


Catalogs == {modelsRev1, modelsRev2, modelsRev3}

----------------------------------------------------------------------------
(* Strings                                                                 *)

Uppers == "ABCDEFGHIJKLMNOPQRSTUVWXYZ"
Lowers == "abcdefghijklmnopqrstuvwxyz"

\* One character of String.prototype.toLowerCase over ASCII.
lowerChar(c) ==
  IF \E i \in 1..Len(Uppers) : SubSeq(Uppers, i, i) = c
    THEN LET i == CHOOSE i \in 1..Len(Uppers) : SubSeq(Uppers, i, i) = c
         IN  SubSeq(Lowers, i, i)
    ELSE c

upperChar(c) ==
  IF \E i \in 1..Len(Lowers) : SubSeq(Lowers, i, i) = c
    THEN LET i == CHOOSE i \in 1..Len(Lowers) : SubSeq(Lowers, i, i) = c
         IN  SubSeq(Uppers, i, i)
    ELSE c

RECURSIVE toUpperCase(_)
toUpperCase(s) ==
  IF Len(s) = 0 THEN ""
  ELSE upperChar(SubSeq(s, 1, 1)) \o toUpperCase(SubSeq(s, 2, Len(s)))

\* A lower-casing that leaves the string as it is.
toLowerCaseNoop(s) == s

RECURSIVE lowerCased(_)
lowerCased(s) ==
  IF Len(s) = 0 THEN ""
  ELSE lowerChar(SubSeq(s, 1, 1)) \o lowerCased(SubSeq(s, 2, Len(s)))

\* modelArg.toLowerCase()
toLowerCase(s) == lowerCased(s)

\* String.prototype.includes: "" is included in every string.
includes(s, q) ==
  \E i \in 1..(Len(s) - Len(q) + 1) : SubSeq(s, i, i + Len(q) - 1) = q

Min(S) == CHOOSE x \in S : \A y \in S : x <= y
Max(S) == CHOOSE x \in S : \A y \in S : x >= y

\* Array.prototype.find, given the indices of the elements that satisfy the
\* predicate: the index of the first one; 0 is `undefined`.
find(hits) == IF hits = {} THEN 0 ELSE Min(hits)

----------------------------------------------------------------------------
(* resolveModel                                                            *)

\* A default lookup that returns the head of the catalog.
defaultMatchFirst(catalog) == IF Len(catalog) > 0 THEN 1 ELSE 0

\* models.find((m) => m.default)
defaultMatch(catalog) == find({i \in DOMAIN catalog : catalog[i].default})

\* An exact step that never matches: the substring step decides alone.
exactMatchSkipped(catalog, lower) == 0

\* An exact step that looks at the keys only.
exactMatchKeyOnly(catalog, lower) ==
  find({i \in DOMAIN catalog : catalog[i].key = lower})

\* models.find((m) => m.key === lower || m.id === lower)
exactMatch(catalog, lower) ==
  find({i \in DOMAIN catalog : catalog[i].key = lower \/ catalog[i].id = lower})

\* A substring step that keeps the last containing entry.
substringMatchLast(catalog, lower) ==
  LET hits == {i \in DOMAIN catalog :
                 includes(catalog[i].key, lower) \/ includes(catalog[i].id, lower)}
  IN  IF hits = {} THEN 0 ELSE Max(hits)

\* models.find((m) => m.key.includes(lower) || m.id.includes(lower))
substringMatch(catalog, lower) ==
  find({i \in DOMAIN catalog :
          includes(catalog[i].key, lower) \/ includes(catalog[i].id, lower)})

\* An error message built from the lower-cased query.
notFoundMessageLower(arg) ==
  "Model '" \o toLowerCase(arg) \o "' not found. Use the models command to list models."

\* `Model '${modelArg}' not found. Use the models command to list models.`
notFoundMessage(arg) ==
  "Model '" \o arg \o "' not found. Use the models command to list models."

Returned(i) == [threw |-> FALSE, error |-> "", match |-> i, message |-> ""]
Thrown(msg) == [threw |-> TRUE, error |-> "ValidationError", match |-> 0, message |-> msg]

\* export function resolveModel(modelArg: string | undefined).  The result
\* is the index of the entry returned (0: undefined), or the
\* ValidationError thrown with its message.
resolveModel(catalog, arg) ==
  IF ~arg.def THEN Returned(defaultMatch(catalog))
  ELSE
    LET lower == toLowerCase(arg.val)
        exact == exactMatch(catalog, lower)
        match == IF exact # 0 THEN exact ELSE substringMatch(catalog, lower)
    IN  IF match = 0 THEN Thrown(notFoundMessage(arg.val)) ELSE Returned(match)

----------------------------------------------------------------------------
(* The queries resolveModel is applied to: every key and id of the         *)
(* catalog, every substring of one of at most MaxQueryLen characters (the  *)
(* empty string among them), near misses and unknown names, each in three  *)
(* casings.                                                                *)

Names(catalog) ==
  {catalog[i].key : i \in DOMAIN catalog} \cup {catalog[i].id : i \in DOMAIN catalog}

Substrings(s) ==
  {SubSeq(s, p[1], p[2]) :
     p \in {p \in (1..Len(s)) \X (0..Len(s)) : p[2] - p[1] + 1 \in 0..MaxQueryLen}}

Unknown == {"nonexistent-model-xyz", "xyz", "4o", "?"}

capitalize(s) ==
  IF Len(s) = 0 THEN "" ELSE upperChar(SubSeq(s, 1, 1)) \o SubSeq(s, 2, Len(s))

Recasings(q) == {q, toUpperCase(q), capitalize(q), toLowerCase(q)}

BaseQueries(catalog) ==
  Names(catalog)
    \cup UNION {Substrings(n) : n \in Names(catalog)}
    \cup {n \o "-x" : n \in Names(catalog)}
    \cup Unknown

Queries(catalog) == UNION {Recasings(q) : q \in BaseQueries(catalog)}

NoResult == [threw |-> FALSE, error |-> "", match |-> 0, message |-> ""]

ResolveIdle ==
  /\ models = modelsRev3
  /\ modelArg = NoString
  /\ resolved = NoResult
  /\ resolvePc = "idle"

ResolveCall ==
  /\ models \in Catalogs
  /\ modelArg \in {NoString} \cup {Some(q) : q \in Queries(models)}
  /\ resolved = NoResult
  /\ resolvePc = "call"

ResolveModel ==
  /\ resolvePc = "call"
  /\ resolved' = resolveModel(models, modelArg)
  /\ resolvePc' = "done"
  /\ UNCHANGED <<models, modelArg, costVars, toolsVars, sendVars, flowVars, bgVars, specVars, gemVars, sumVars>>

----------------------------------------------------------------------------
(* parseTools (src/adapters.ts)                                            *)

\* type Tool = "search" | "code" | "think" | "think-high" | "no-think"
Tool == {"search", "code", "think", "think-high", "no-think"}

\* const providerTools: Record<string, Tool[]>
providerTools ==
  [p \in {"google", "anthropic", "openai"} |->
     CASE p = "google" -> <<"search", "code">>
       [] p = "anthropic" -> <<"think", "think-high", "code">>
       [] p = "openai" -> <<"search", "no-think", "think-high">>]

\* The property names an object literal inherits from Object.prototype:
\* `x in obj` is true of them although obj has no such entry.
ObjectPrototypeKeys ==
  {"constructor", "toString", "toLocaleString", "valueOf", "hasOwnProperty",
   "isPrototypeOf", "propertyIsEnumerable", "__proto__"}

\* `provider in providerTools`
inProviderTools(p) == p \in DOMAIN providerTools \/ p \in ObjectPrototypeKeys

Range(seq) == {seq[i] : i \in DOMAIN seq}

\* Array.prototype.filter
RECURSIVE filter(_, _)
filter(seq, keep) ==
  IF seq = <<>> THEN <<>>
  ELSE (IF Head(seq) \in keep THEN <<Head(seq)>> ELSE <<>>) \o filter(Tail(seq), keep)

\* Array.prototype.join
RECURSIVE join(_, _)
join(seq, sep) ==
  IF seq = <<>> THEN ""
  ELSE IF Len(seq) = 1 THEN seq[1]
  ELSE seq[1] \o sep \o join(Tail(seq), sep)

\* The grave accent of Markdown code spans.  A TLA+ string cannot hold
\* that character, so the apostrophe stands for it; no tool name or
\* provider id contains either.
GraveAccent == "'"

\* const codeMd = (s) => GraveAccent + s + GraveAccent   (src/display.ts)
codeMd(s) == GraveAccent \o s \o GraveAccent

RECURSIVE mapCodeMd(_)
mapCodeMd(seq) ==
  IF seq = <<>> THEN <<>> ELSE <<codeMd(Head(seq))>> \o mapCodeMd(Tail(seq))

\* export const codeListMd = (strs) => strs.map(codeMd).join(", ")
codeListMd(strs) == join(mapCodeMd(strs), ", ")

ToolsReturned(t) == [threw |-> FALSE, error |-> "", message |-> "", value |-> t]
ToolsThrown(e, msg) == [threw |-> TRUE, error |-> e, message |-> msg, value |-> <<>>]

\* A filter that keeps only the first tool that is not allowed.
badToolsFirstOnly(inputTools, allowedTools) ==
  LET bad == filter(inputTools, Range(inputTools) \ Range(allowedTools))
  IN  IF bad = <<>> THEN <<>> ELSE <<Head(bad)>>

\* inputTools.filter((t) => !allowedTools.includes(t))
badTools(inputTools, allowedTools) ==
  filter(inputTools, Range(inputTools) \ Range(allowedTools))

\* function checkTools(provider, inputTools): the error thrown, or none.
\* For a property name inherited from Object.prototype, allowedTools is
\* not an array and allowedTools.includes is not a function: the filter
\* callback, run for the first tool, raises a TypeError.
checkTools(p, inputTools) ==
  IF p \notin DOMAIN providerTools
    THEN IF inputTools = <<>>
           THEN ToolsReturned(<<>>)
           ELSE ToolsThrown("TypeError", "allowedTools.includes is not a function")
  ELSE
    LET allowedTools == providerTools[p]
        bad == badTools(inputTools, allowedTools)
    IN  IF Len(bad) > 0
          THEN ToolsThrown("ValidationError",
                 "Invalid tools: " \o codeListMd(bad) \o ". Valid tools for " \o p
                   \o " models are: " \o join(allowedTools, ","))
          ELSE ToolsReturned(<<>>)

\* parseTools without the early return for an empty list.
parseToolsNoEarlyReturn(p, t) ==
  IF ~inProviderTools(p)
    THEN ToolsThrown("ValidationError",
           "Tools can only be used with Google and Anthropic models")
  ELSE
    LET checked == checkTools(p, t)
    IN  IF checked.threw THEN checked ELSE ToolsReturned(t)

\* export function parseTools(provider: string, tools: string[]): Tool[]
parseTools(p, t) ==
  IF Len(t) = 0 THEN ToolsReturned(<<>>)
  ELSE IF ~inProviderTools(p)
    THEN ToolsThrown("ValidationError",
           "Tools can only be used with Google and Anthropic models")
  ELSE
    LET checked == checkTools(p, t)
    IN  IF checked.threw THEN checked ELSE ToolsReturned(t)

\* The provider ids parseTools is applied to: those of the catalogs and of
\* createMessage, an id that is in neither, and a property name of
\* Object.prototype.
ProviderIds ==
  {"google", "anthropic", "openai", "deepseek", "groq", "cerebras", "xai",
   "openrouter", "mistral", "constructor"}

\* The tool names given with --tools: the five tools and a name that is none.
ToolArgs == Tool \cup {"browse"}

ToolLists == UNION {[1..n -> ToolArgs] : n \in 0..MaxTools}

NoParsed == [threw |-> FALSE, error |-> "", message |-> "", value |-> <<>>]

ToolsIdle ==
  /\ provider = ""
  /\ tools = <<>>
  /\ parsed = NoParsed
  /\ toolsPc = "idle"

ToolsCall ==
  /\ provider \in ProviderIds
  /\ tools \in ToolLists
  /\ parsed = NoParsed
  /\ toolsPc = "call"

ParseTools ==
  /\ toolsPc = "call"
  /\ parsed' = parseTools(provider, tools)
  /\ toolsPc' = "done"
  /\ UNCHANGED <<provider, tools, costVars, resolveVars, sendVars, flowVars, bgVars, specVars, gemVars, sumVars>>

----------------------------------------------------------------------------
(* Provider adapters (src/adapters.ts): what each makes of a response      *)

\* `o || 0` of an optional number: undefined and 0 both give 0.
OrZero(o) == IF Truthy(o) THEN o.val ELSE 0

\* `o || ""` of an optional string: undefined, null and "" all give "".
OrEmpty(o) == IF o.def THEN o.val ELSE ""

\* String.prototype.startsWith
startsWith(s, prefix) ==
  Len(s) >= Len(prefix) /\ SubSeq(s, 1, Len(prefix)) = prefix

\* Whether t occurs in s at position i.
isAt(s, t, i) ==
  /\ i >= 1
  /\ i + Len(t) - 1 <= Len(s)
  /\ SubSeq(s, i, i + Len(t) - 1) = t

OpenTag == "<think>"
CloseTag == "</think>"

\* The characters of \s that the modelled responses use.
Whitespace == {" ", "\n", "\t"}

isSpace(s, i) == i \in 1..Len(s) /\ SubSeq(s, i, i) \in Whitespace

\* The positions of a closing tag after which `\s+(.+)` can match: one
\* whitespace character follows the tag and one more character follows it.
closings(s) ==
  {e \in 1..Len(s) :
     /\ isAt(s, CloseTag, e)
     /\ isSpace(s, e + Len(CloseTag))
     /\ Len(s) >= e + Len(CloseTag) + 1}

NoMatch == [matched |-> FALSE, group2 |-> "", group3 |-> ""]

\* Group 3 for the closing tag at e: `\s+` takes the whole run of
\* whitespace after the tag and `(.+)` the rest of the string; when the run
\* reaches the end of the string `\s+` gives back its last character.
group3After(s, e) ==
  LET from == e + Len(CloseTag)
      runEnd == Max({k \in from..Len(s) : \A j \in from..k : isSpace(s, j)})
  IN  IF runEnd < Len(s) THEN SubSeq(s, runEnd + 1, Len(s))
      ELSE SubSeq(s, Len(s), Len(s))

\* /(<think>)?(.+)<\/think>\s+(.+)/ms.exec(content): with the s flag `.`
\* matches every character, so a match found at all starts at the first
\* character.  Group 1 is tried first, then `.+` is greedy: group 2 runs to
\* the last closing tag that `\s+(.+)` can follow; only when no such tag
\* lies after an opening tag and one more character is the opening tag left
\* to group 2.
thinkMatch(s) ==
  LET withOpen == {e \in closings(s) : isAt(s, OpenTag, 1) /\ e >= Len(OpenTag) + 2}
      without == {e \in closings(s) : e >= 2}
  IN  IF withOpen # {}
        THEN [matched |-> TRUE,
              group2 |-> SubSeq(s, Len(OpenTag) + 1, Max(withOpen) - 1),
              group3 |-> group3After(s, Max(withOpen))]
      ELSE IF without # {}
        THEN [matched |-> TRUE,
              group2 |-> SubSeq(s, 1, Max(without) - 1),
              group3 |-> group3After(s, Max(without))]
      ELSE NoMatch

\* What an adapter call produced.  tokens.output is optional because
\* claudeCreateMessage copies response.usage.output_tokens as it is.  The
\* fields cost and stop_reason of the returned object are not modelled.
SendReturned(content, reasoning, counts) ==
  [threw |-> FALSE, error |-> "", message |-> "",
   content |-> content, reasoning |-> reasoning, tokens |-> counts]

NoCounts == [input |-> 0, output |-> None, input_cache_hit |-> 0]

SendThrown(e, msg) ==
  [threw |-> TRUE, error |-> e, message |-> msg,
   content |-> "", reasoning |-> "", tokens |-> NoCounts]

\* A provider response, reduced to what the adapters read:
\*   body     choices[0].message is there (chat completions); candidates[0]
\*            .content.parts is there (Google); content or output has a
\*            block (Anthropic, Responses)
\*   text     message.content / output_text / the text block or part
\*   thought  message.reasoning_content / the thinking block / thought part
\*   usage    usage or usageMetadata, with
\*     input   prompt_tokens / input_tokens / promptTokenCount
\*     output  completion_tokens / output_tokens / candidatesTokenCount
\*     cached  prompt_tokens_details.cached_tokens /
\*             input_tokens_details.cached_tokens / cache_read_input_tokens /
\*             cachedContentTokenCount
\*     extra   completion_tokens_details.reasoning_tokens /
\*             cache_creation_input_tokens / thoughtsTokenCount
NoUsage == [def |-> FALSE, val |-> [input |-> None, output |-> None, cached |-> None, extra |-> None]]

\* `response.usage?.field`
usageField(r, f) == IF r.usage.def THEN r.usage.val[f] ELSE None

\* The adapter adding the reasoning tokens whatever the model.
makeOpenAIFuncAddingAlways(key, r) ==
  IF ~r.body THEN SendThrown("Error", "No response found")
  ELSE
    LET reasoning0 == OrEmpty(r.thought)
        content0 == OrEmpty(r.text)
        m == thinkMatch(content0)
        reasoning == IF ~m.matched THEN reasoning0
                     ELSE IF reasoning0 # "" THEN reasoning0 \o "\n\n" \o m.group2
                     ELSE m.group2
        content == IF m.matched THEN m.group3 ELSE content0
        output == OrZero(usageField(r, "output"))
                    + OrZero(usageField(r, "extra"))
    IN  SendReturned(content, reasoning,
          [input |-> OrZero(usageField(r, "input")),
           output |-> Some(output),
           input_cache_hit |-> OrZero(usageField(r, "cached"))])

\* const message = response.choices[0].message ... return {...}
\* (src/adapters.ts:239-275)
makeOpenAIFunc(key, r) ==
  IF ~r.body THEN SendThrown("Error", "No response found")
  ELSE
    LET reasoning0 == OrEmpty(r.thought)
        content0 == OrEmpty(r.text)
        m == thinkMatch(content0)
        reasoning == IF ~m.matched THEN reasoning0
                     ELSE IF reasoning0 # "" THEN reasoning0 \o "\n\n" \o m.group2
                     ELSE m.group2
        content == IF m.matched THEN m.group3 ELSE content0
        output == OrZero(usageField(r, "output"))
                    + (IF startsWith(key, "grok") THEN OrZero(usageField(r, "extra")) ELSE 0)
    IN  SendReturned(content, reasoning,
          [input |-> OrZero(usageField(r, "input")),
           output |-> Some(output),
           input_cache_hit |-> OrZero(usageField(r, "cached"))])

\* gptCreateMessage after the await (src/adapters.ts:204-224).  output_text
\* is the SDK's concatenation of the output text blocks: "" when there is
\* none.  R.pathOr gives the default for a missing path only.
gptCreateMessage(r) ==
  SendReturned(IF r.body THEN OrEmpty(r.text) ELSE "", "",
    [input |-> OrZero(usageField(r, "input")),
     output |-> Some(OrZero(usageField(r, "output"))),
     input_cache_hit |-> Coalesce(usageField(r, "cached"), 0)])

\* claudeCreateMessage after the await (src/adapters.ts:386-418).
\* response.usage is read without `?.`: a response without it raises a
\* TypeError.  Empty rendered blocks are dropped by `.filter((x) => x)`.
claudeCreateMessage(r) ==
  IF ~r.usage.def
    THEN SendThrown("TypeError", "Cannot read properties of undefined (reading 'input_tokens')")
  ELSE
    LET cache_miss == OrZero(r.usage.val.input)
        cache_hit == OrZero(r.usage.val.cached)
        cache_write == OrZero(r.usage.val.extra)
    IN  SendReturned(IF r.body THEN OrEmpty(r.text) ELSE "",
                     IF r.body THEN OrEmpty(r.thought) ELSE "",
          [input |-> cache_miss + cache_hit + cache_write,
           output |-> r.usage.val.output,
           input_cache_hit |-> cache_hit])

\* geminiCreateMessage after the await (src/adapters.ts:451-484), for a
\* response without grounding chunks.
geminiCreateMessage(r) ==
  SendReturned(IF r.body THEN OrEmpty(r.text) ELSE "",
               IF r.body THEN OrEmpty(r.thought) ELSE "",
    [input |-> OrZero(usageField(r, "input")),
     output |-> Some(OrZero(usageField(r, "output")) + OrZero(usageField(r, "extra"))),
     input_cache_hit |-> OrZero(usageField(r, "cached"))])

\* The providers served by makeOpenAIFunc (src/adapters.ts:278-301).
ChatProviders == {"groq", "deepseek", "cerebras", "xai", "openrouter"}

\* export function createMessage(provider, input): which adapter runs.
\* "openai" names the default branch, taken by every other provider id.
adapterOf(p) ==
  IF p = "anthropic" THEN "anthropic"
  ELSE IF p = "google" THEN "google"
  ELSE IF p \in ChatProviders THEN "chat"
  ELSE "openai"

\* What createMessage resolves to once the provider has answered with r.
createMessage(m, r) ==
  CASE adapterOf(m.provider) = "anthropic" -> claudeCreateMessage(r)
    [] adapterOf(m.provider) = "google" -> geminiCreateMessage(r)
    [] adapterOf(m.provider) = "chat" -> makeOpenAIFunc(m.key, r)
    [] OTHER -> gptCreateMessage(r)

\* The environment variable an adapter's client takes its key from: the
\* second argument of makeOpenAIFunc, GEMINI_API_KEY, and the variables the
\* SDK clients read when constructed without a key.
envVarName(p) ==
  CASE p = "groq" -> "GROQ_API_KEY"
    [] p = "deepseek" -> "DEEPSEEK_API_KEY"
    [] p = "cerebras" -> "CEREBRAS_API_KEY"
    [] p = "xai" -> "XAI_API_KEY"
    [] p = "openrouter" -> "OPENROUTER_API_KEY"
    [] p = "google" -> "GEMINI_API_KEY"
    [] p = "anthropic" -> "ANTHROPIC_API_KEY"
    [] OTHER -> "OPENAI_API_KEY"

\* The variable the SDK client falls back to by itself.  makeOpenAIFunc
\* hands the OpenAI client the value of its own variable, never its name.
sdkVarName(p) ==
  IF adapterOf(p) = "anthropic" THEN "ANTHROPIC_API_KEY" ELSE "OPENAI_API_KEY"

KeyVars ==
  {"GROQ_API_KEY", "DEEPSEEK_API_KEY", "CEREBRAS_API_KEY", "XAI_API_KEY",
   "OPENROUTER_API_KEY", "GEMINI_API_KEY", "ANTHROPIC_API_KEY", "OPENAI_API_KEY"}

----------------------------------------------------------------------------
(* createMessage (src/adapters.ts): one send to a provider                 *)

\* Message contents with inline reasoning: an optional opening tag, the
\* reasoning, the closing tag, whitespace or none, the answer.
Opens == {"", OpenTag}
Reasonings == {"r", "a\nb"}
Gaps == {"", "\n", "\n\n", " "}
Answers == {"ok", "x y"}

Tagged ==
  {o \o rs \o CloseTag \o g \o a :
     o \in Opens, rs \in Reasonings, g \in Gaps, a \in Answers}

\* Other contents: none, plain text, reasoning alone, text before the
\* opening tag, two closing tags, empty reasoning.
Plain ==
  {"", "hi", "<think>r</think>", "<think>r</think>\n", "p<think>r</think>\nok",
   "r</think>\na</think>\nok", "<think></think>\nok"}

Texts == {NoString} \cup {Some(t) : t \in Tagged \cup Plain}
Thoughts == {NoString, Some("t")}

UsageNumbers == {None} \cup {Some(n) : n \in 0..MaxUsage}

Usages ==
  {NoUsage} \cup
  {Some(u) : u \in [input : UsageNumbers, output : UsageNumbers,
                    cached : UsageNumbers, extra : UsageNumbers]}

SomeUsage ==
  Some([input |-> Some(1), output |-> Some(1), cached |-> None, extra |-> None])

\* The responses a provider answers with: every body with one usage, and
\* every usage with one body.
Replies ==
  {[body |-> FALSE, text |-> NoString, thought |-> NoString, usage |-> SomeUsage]}
  \cup {[body |-> TRUE, text |-> t, thought |-> th, usage |-> SomeUsage] :
          t \in Texts, th \in Thoughts}
  \cup {[body |-> TRUE, text |-> Some("hi"), thought |-> NoString, usage |-> u] :
          u \in Usages}

NoReply == [body |-> FALSE, text |-> NoString, thought |-> NoString, usage |-> NoUsage]
NoResponse == SendReturned("", "", NoCounts)
NoSendModel == [provider |-> "", key |-> "", id |-> "", default |-> FALSE]

\* The models a message is sent to: the entries of the catalogs.
SendModels == UNION {Range(c) : c \in Catalogs}

\* The environment: every key variable set, or none.
Environments == {KeyVars, {}}

SendIdle ==
  /\ sendModel = NoSendModel
  /\ env = {}
  /\ reply = NoReply
  /\ netCalls = 0
  /\ response = NoResponse
  /\ sendPc = "idle"

SendCall ==
  /\ sendModel \in SendModels
  /\ env \in Environments
  /\ reply = NoReply
  /\ netCalls = 0
  /\ response = NoResponse
  /\ sendPc = "call"

\* createMessage up to the await of the adapter it dispatches to.  Only
\* geminiCreateMessage looks at its key itself; the others construct the
\* SDK client and issue the request.
CreateMessage ==
  /\ sendPc = "call"
  /\ IF adapterOf(sendModel.provider) = "google" /\ "GEMINI_API_KEY" \notin env
       THEN /\ response' = SendThrown("Error", "GEMINI_API_KEY missing")
            /\ sendPc' = "done"
            /\ UNCHANGED netCalls
       ELSE /\ netCalls' = netCalls + 1
            /\ sendPc' = "await"
            /\ UNCHANGED response
  /\ UNCHANGED <<sendModel, env, reply, costVars, resolveVars, toolsVars, flowVars, bgVars, specVars, gemVars, sumVars>>

\* The SDK client (OpenAI, Anthropic) finds no key and raises its own
\* error before any request.  What the SDK does without a key is not in
\* this repository: it may raise this error or go on with the request.  The
\* error can name only the variable the SDK knows.
ClientRejects ==
  /\ sendPc = "call"
  /\ adapterOf(sendModel.provider) # "google"
  /\ envVarName(sendModel.provider) \notin env
  /\ sdkVarName(sendModel.provider) \notin env
  /\ response' = SendThrown("Error",
       "The " \o sdkVarName(sendModel.provider) \o " environment variable is missing or empty")
  /\ sendPc' = "done"
  /\ UNCHANGED <<sendModel, env, reply, netCalls, costVars, resolveVars, toolsVars, flowVars, bgVars, specVars, gemVars, sumVars>>

\* A failure that sends the request again, up to a second request.
ProviderFailsRetry ==
  /\ sendPc = "await"
  /\ IF netCalls < 2
       THEN sendPc' = "call" /\ UNCHANGED response
       ELSE sendPc' = "done" /\ response' = SendThrown("APIError", "request failed")
  /\ UNCHANGED <<sendModel, env, reply, netCalls, costVars, resolveVars, toolsVars, flowVars, bgVars, specVars, gemVars, sumVars>>

\* The awaited request fails (HTTP error, malformed payload): the promise
\* rejects and no adapter catches it.
ProviderFails ==
  /\ sendPc = "await"
  /\ response' = SendThrown("APIError", "request failed")
  /\ sendPc' = "done"
  /\ UNCHANGED <<sendModel, env, reply, netCalls, costVars, resolveVars, toolsVars, flowVars, bgVars, specVars, gemVars, sumVars>>

\* The awaited request is answered: the adapter builds its result.
ProviderReplies ==
  /\ sendPc = "await"
  /\ \E r \in Replies :
       /\ reply' = r
       /\ response' = createMessage(sendModel, r)
  /\ sendPc' = "done"
  /\ UNCHANGED <<sendModel, env, netCalls, costVars, resolveVars, toolsVars, flowVars, bgVars, specVars, gemVars, sumVars>>

----------------------------------------------------------------------------
(* The message flow: the action of the top-level command (src/main.ts)     *)

HISTORY_LENGTH == 30

\* A chat is the sequence of its messages; systemPrompt and createdAt are
\* not modelled.
UserMessage(content) == [role |-> "user", model |-> "", content |-> content]
AssistantMessage(id, content) == [role |-> "assistant", model |-> id, content |-> content]

\* const getLastModelId = (chat) =>
\*   chat.messages.findLast((m) => m.role === "assistant")?.model
getLastModelId(chat) ==
  LET assistants == {i \in DOMAIN chat : chat[i].role = "assistant"}
  IN  IF assistants = {} THEN NoString ELSE Some(chat[Max(assistants)].model)

\* history.slice(-HISTORY_LENGTH), as History.write stores it
lastChats(h) ==
  IF Len(h) <= HISTORY_LENGTH THEN h ELSE SubSeq(h, Len(h) - HISTORY_LENGTH + 1, Len(h))

\* The exchange put in place of the messages of the last chat of h.
pushMessagesReplacing(h, userMsg, assistantMsg) ==
  [h EXCEPT ![Len(h)] = <<userMsg, assistantMsg>>]

\* chat.messages.push(userMsg, assistantMsg) on the last chat of h
pushMessages(h, userMsg, assistantMsg) ==
  [h EXCEPT ![Len(h)] = @ \o <<userMsg, assistantMsg>>]

\* The options of a run: whether a message or stdin was given, --reply,
\* --model, --tools, --cache, --image.
Options ==
  [input : BOOLEAN,
   reply : BOOLEAN,
   model : {NoString, Some("sonnet"), Some("flash"), Some("kimi"), Some("nope")},
   tools : {<<>>, <<"search">>, <<"think">>, <<"browse">>},
   cache : BOOLEAN,
   image : BOOLEAN]

NoOpts ==
  [input |-> FALSE, reply |-> FALSE, model |-> NoString, tools |-> <<>>,
   cache |-> FALSE, image |-> FALSE]

\* A stored history of HISTORY_LENGTH chats, the oldest one told apart.
FullHistory ==
  [i \in 1..HISTORY_LENGTH |->
     <<UserMessage(IF i = 1 THEN "oldest" ELSE "hello"),
       AssistantMessage("sonnet-4.5", "hi")>>]

\* The stored history at the start of a run: empty, one chat of one
\* exchange with a model of the catalog, or as many chats as are kept.
StoredHistories ==
  {<<>>, FullHistory} \cup
  {<< <<UserMessage("hello"), AssistantMessage(id, "hi")>> >> :
     id \in {"sonnet-4.5", "gemini-3-flash", "kimi-k2"}}

FlowIdle ==
  /\ opts = NoOpts
  /\ stored = <<>>
  /\ history = <<>>
  /\ flowModel = NoSendModel
  /\ flowTools = <<>>
  /\ flowError = ""
  /\ flowPc = "idle"

FlowCall ==
  /\ opts \in Options
  /\ stored \in StoredHistories
  /\ history = <<>>
  /\ flowModel = NoSendModel
  /\ flowTools = <<>>
  /\ flowError = ""
  /\ flowPc = "start"

\* The send component before the flow has reached createMessage: the
\* environment is there from the start.
SendPending ==
  /\ sendModel = NoSendModel
  /\ env \in Environments
  /\ reply = NoReply
  /\ netCalls = 0
  /\ response = NoResponse
  /\ sendPc = "idle"

\* src/main.ts:1192-1219: the input is required; the history is read and,
\* unless a chat is continued, a new chat is pushed onto it.
Prepare ==
  /\ flowPc = "start"
  /\ IF ~opts.input
       THEN /\ flowError' = "ValidationError: Message, stdin, or command is required"
            /\ flowPc' = "rejected"
            /\ UNCHANGED history
       ELSE /\ history' = IF ~opts.reply \/ Len(stored) = 0
                            THEN Append(stored, <<>>) ELSE stored
            /\ flowPc' = "prepared"
            /\ UNCHANGED flowError
  /\ UNCHANGED <<opts, stored, flowModel, flowTools, costVars, resolveVars, toolsVars, sendVars, bgVars, specVars, gemVars, sumVars>>

\* src/main.ts:1222-1225: -r uses the model of the last response unless a
\* model is given.
Resolve ==
  /\ flowPc = "prepared"
  /\ LET prevModelId == getLastModelId(history[Len(history)])
         arg == IF opts.reply /\ prevModelId.def /\ prevModelId.val # "" /\ ~opts.model.def
                  THEN prevModelId ELSE opts.model
         found == resolveModel(models, arg)
     IN  IF found.threw
           THEN /\ flowError' = found.error \o ": " \o found.message
                /\ flowPc' = "rejected"
                /\ UNCHANGED flowModel
           ELSE /\ flowModel' = models[found.match]
                /\ flowPc' = "resolved"
                /\ UNCHANGED flowError
  /\ UNCHANGED <<opts, stored, history, flowTools, costVars, resolveVars, toolsVars, sendVars, bgVars, specVars, gemVars, sumVars>>

\* The validation step without the tools check: the tools go on as given.
ValidateWithoutTools ==
  /\ flowPc = "resolved"
  /\ IF opts.cache /\ flowModel.provider # "anthropic"
       THEN /\ flowError' = "ValidationError: Manual caching only works for Anthropic"
            /\ flowPc' = "rejected"
            /\ UNCHANGED flowTools
     ELSE IF opts.image /\ flowModel.provider # "anthropic"
       THEN /\ flowError' = "ValidationError: Image URLs only work for Anthropic"
            /\ flowPc' = "rejected"
            /\ UNCHANGED flowTools
     ELSE /\ flowTools' = opts.tools
          /\ flowPc' = "validated"
          /\ UNCHANGED flowError
  /\ UNCHANGED <<opts, stored, history, flowModel, costVars, resolveVars, toolsVars, sendVars, bgVars, specVars, gemVars, sumVars>>

\* src/main.ts:1226-1232: the tools, then --cache and --image, are checked
\* against the provider of the resolved model.
Validate ==
  /\ flowPc = "resolved"
  /\ LET checked == parseTools(flowModel.provider, opts.tools)
     IN  IF checked.threw
           THEN /\ flowError' = checked.error \o ": " \o checked.message
                /\ flowPc' = "rejected"
                /\ UNCHANGED flowTools
         ELSE IF opts.cache /\ flowModel.provider # "anthropic"
           THEN /\ flowError' = "ValidationError: Manual caching only works for Anthropic"
                /\ flowPc' = "rejected"
                /\ UNCHANGED flowTools
         ELSE IF opts.image /\ flowModel.provider # "anthropic"
           THEN /\ flowError' = "ValidationError: Image URLs only work for Anthropic"
                /\ flowPc' = "rejected"
                /\ UNCHANGED flowTools
         ELSE /\ flowTools' = checked.value
              /\ flowPc' = "validated"
              /\ UNCHANGED flowError
  /\ UNCHANGED <<opts, stored, history, flowModel, costVars, resolveVars, toolsVars, sendVars, bgVars, specVars, gemVars, sumVars>>

\* src/main.ts:1237-1247: createMessage is called and awaited.
CallAdapter ==
  /\ flowPc = "validated"
  /\ sendPc = "idle"
  /\ sendModel' = flowModel
  /\ sendPc' = "call"
  /\ flowPc' = "awaiting"
  /\ UNCHANGED <<env, reply, netCalls, response>>
  /\ UNCHANGED <<opts, stored, history, flowModel, flowTools, flowError,
                 costVars, resolveVars, toolsVars, bgVars, specVars, gemVars, sumVars>>

\* src/main.ts:1248-1262: the exchange is pushed onto the chat and the
\* history is written.
Finish ==
  /\ flowPc = "awaiting"
  /\ sendPc = "done"
  /\ ~response.threw
  /\ history' = pushMessages(history, UserMessage("input"),
                             AssistantMessage(flowModel.id, response.content))
  /\ stored' = lastChats(history')
  /\ flowPc' = "done"
  /\ UNCHANGED <<opts, flowModel, flowTools, flowError, costVars, resolveVars, toolsVars, sendVars, bgVars, specVars, gemVars, sumVars>>

\* A catch that writes the history as it is in memory.
CatchWriting ==
  /\ flowPc = "awaiting"
  /\ sendPc = "done"
  /\ response.threw
  /\ flowError' = response.error \o ": " \o response.message
  /\ flowPc' = "failed"
  /\ stored' = lastChats(history)
  /\ UNCHANGED <<opts, history, flowModel, flowTools, costVars, resolveVars, toolsVars, sendVars, bgVars, specVars, gemVars, sumVars>>

\* src/main.ts:1264-1270: a failure of createMessage is printed.
Catch ==
  /\ flowPc = "awaiting"
  /\ sendPc = "done"
  /\ response.threw
  /\ flowError' = response.error \o ": " \o response.message
  /\ flowPc' = "failed"
  /\ UNCHANGED <<opts, stored, history, flowModel, flowTools, costVars, resolveVars, toolsVars, sendVars, bgVars, specVars, gemVars, sumVars>>

----------------------------------------------------------------------------
(* Background completions: initiate, pollStatus, resume, cancel.  The code *)
(* of these operations is not among the sources; they are modelled from    *)
(* section 4.5 of the specification.                                       *)

ActiveStatuses == {"queued", "in_progress"}
TerminalStatuses == {"completed", "failed", "cancelled", "errored"}

NoTask == [def |-> FALSE, val |-> [id |-> "", status |-> ""]]
NoOutput == [kind |-> "none", status |-> "", content |-> FALSE, threw |-> FALSE]

BgIdle ==
  /\ bgTask = NoTask
  /\ remote = "none"
  /\ observed = ""
  /\ polls = 0
  /\ bgOut = NoOutput
  /\ cancelState = "none"
  /\ bgPc = "idle"

\* A chat without a background task, about to start one.
BgCall ==
  /\ bgTask = NoTask
  /\ remote = "none"
  /\ observed = ""
  /\ polls = 0
  /\ bgOut = NoOutput
  /\ cancelState = "none"
  /\ bgPc = "new"

\* initiate(request): the request is submitted with background = true; the
\* provider answers at once with an id and a status, queued or in_progress,
\* and the caller puts the task onto the chat.
Initiate ==
  /\ bgPc = "new"
  /\ \E st \in ActiveStatuses :
       /\ remote' = st
       /\ bgTask' = Some([id |-> "resp_1", status |-> st])
  /\ bgPc' = "waiting"
  /\ UNCHANGED <<observed, polls, bgOut, cancelState>>
  /\ UNCHANGED <<costVars, resolveVars, toolsVars, sendVars, flowVars, specVars, gemVars, sumVars>>

\* The provider works on the request: queued -> in_progress -> one of the
\* terminal statuses.  cancelled is reached by a cancellation only.
ProviderProgresses ==
  /\ bgPc \in {"waiting", "polling", "cancelling"}
  /\ \/ remote = "queued" /\ remote' = "in_progress"
     \/ remote = "in_progress" /\ remote' \in {"completed", "failed", "errored"}
  /\ UNCHANGED <<bgTask, observed, polls, bgOut, cancelState, bgPc>>
  /\ UNCHANGED <<costVars, resolveVars, toolsVars, sendVars, flowVars, specVars, gemVars, sumVars>>

\* resume(chat) starts from the status kept on the chat.
Resume ==
  /\ bgPc = "waiting"
  /\ bgTask.def
  /\ observed' = bgTask.val.status
  /\ bgPc' = "polling"
  /\ UNCHANGED <<bgTask, remote, polls, bgOut, cancelState>>
  /\ UNCHANGED <<costVars, resolveVars, toolsVars, sendVars, flowVars, specVars, gemVars, sumVars>>

\* A poll made whatever the last observed status is.
PollStatusAlways ==
  /\ bgPc = "polling"
  /\ polls < MaxPolls
  /\ observed' = remote
  /\ polls' = polls + 1
  /\ UNCHANGED <<bgTask, remote, bgOut, cancelState, bgPc>>
  /\ UNCHANGED <<costVars, resolveVars, toolsVars, sendVars, flowVars, specVars, gemVars, sumVars>>

\* One round of resume's loop: pollStatus(id) while the status is queued or
\* in_progress.  The poll has no side effect: the task on the chat keeps
\* its id and the status it was stored with.
PollStatus ==
  /\ bgPc = "polling"
  /\ observed \in ActiveStatuses
  /\ polls < MaxPolls
  /\ observed' = remote
  /\ polls' = polls + 1
  /\ UNCHANGED <<bgTask, remote, bgOut, cancelState, bgPc>>
  /\ UNCHANGED <<costVars, resolveVars, toolsVars, sendVars, flowVars, specVars, gemVars, sumVars>>

\* The end of resume that keeps the task of a run that did not complete.
ResumeEndsKeepingFailed ==
  /\ bgPc = "polling"
  /\ observed \in TerminalStatuses
  /\ bgOut' = [kind |-> IF observed = "completed" THEN "response" ELSE "status",
               status |-> observed, content |-> observed = "completed", threw |-> FALSE]
  /\ bgTask' = IF observed = "completed" THEN NoTask ELSE bgTask
  /\ bgPc' = "resumed"
  /\ UNCHANGED <<remote, observed, polls, cancelState>>
  /\ UNCHANGED <<costVars, resolveVars, toolsVars, sendVars, flowVars, specVars, gemVars, sumVars>>

\* The end of resume's loop, on a terminal status: a completed run is
\* retrieved and normalized to a response; any other status is reported
\* without content.  The task is taken off the chat.
ResumeEnds ==
  /\ bgPc = "polling"
  /\ observed \in TerminalStatuses
  /\ bgOut' = [kind |-> IF observed = "completed" THEN "response" ELSE "status",
               status |-> observed, content |-> observed = "completed", threw |-> FALSE]
  /\ bgTask' = NoTask
  /\ bgPc' = "resumed"
  /\ UNCHANGED <<remote, observed, polls, cancelState>>
  /\ UNCHANGED <<costVars, resolveVars, toolsVars, sendVars, flowVars, specVars, gemVars, sumVars>>

\* The process exits in the middle of resume's loop: the task stays on the
\* chat with the status it was stored with, until the next resume.
ExitMidPoll ==
  /\ bgPc = "polling"
  /\ observed \in ActiveStatuses
  /\ observed' = ""
  /\ bgPc' = "waiting"
  /\ UNCHANGED <<bgTask, remote, polls, bgOut, cancelState>>
  /\ UNCHANGED <<costVars, resolveVars, toolsVars, sendVars, flowVars, specVars, gemVars, sumVars>>

\* A cancel that leaves the task on the chat until the provider confirms.
CancelAwaitingProvider ==
  /\ bgPc \in {"waiting", "polling"}
  /\ bgTask.def
  /\ cancelState' = "pending"
  /\ bgPc' = "cancelling"
  /\ UNCHANGED <<bgTask, remote, observed, polls, bgOut>>
  /\ UNCHANGED <<costVars, resolveVars, toolsVars, sendVars, flowVars, specVars, gemVars, sumVars>>

\* cancel(id): the cancellation request goes to the provider and the caller
\* takes the task off the chat, without waiting for the provider.
Cancel ==
  /\ bgPc \in {"waiting", "polling"}
  /\ bgTask.def
  /\ cancelState' = "pending"
  /\ bgTask' = NoTask
  /\ bgPc' = "cancelling"
  /\ UNCHANGED <<remote, observed, polls, bgOut>>
  /\ UNCHANGED <<costVars, resolveVars, toolsVars, sendVars, flowVars, specVars, gemVars, sumVars>>

\* The provider confirms the cancellation of a run that has not ended.
CancelAcked ==
  /\ bgPc = "cancelling"
  /\ cancelState = "pending"
  /\ remote \in ActiveStatuses
  /\ remote' = "cancelled"
  /\ cancelState' = "acked"
  /\ UNCHANGED <<bgTask, observed, polls, bgOut, bgPc>>
  /\ UNCHANGED <<costVars, resolveVars, toolsVars, sendVars, flowVars, specVars, gemVars, sumVars>>

\* The cancellation request fails: the run has ended, or the request did
\* not get through.
CancelFails ==
  /\ bgPc = "cancelling"
  /\ cancelState = "pending"
  /\ cancelState' = "failed"
  /\ UNCHANGED <<bgTask, remote, observed, polls, bgOut, bgPc>>
  /\ UNCHANGED <<costVars, resolveVars, toolsVars, sendVars, flowVars, specVars, gemVars, sumVars>>

\* The cancel command exits, answered or not.
CancelExits ==
  /\ bgPc = "cancelling"
  /\ bgPc' = "cancelled"
  /\ UNCHANGED <<bgTask, remote, observed, polls, bgOut, cancelState>>
  /\ UNCHANGED <<costVars, resolveVars, toolsVars, sendVars, flowVars, specVars, gemVars, sumVars>>

----------------------------------------------------------------------------
(* parseMessageSpec (src/utils.ts)                                         *)

Digits == "0123456789"

isDigit(c) == \E d \in 1..10 : SubSeq(Digits, d, d) = c

digitValue(c) == (CHOOSE d \in 1..10 : SubSeq(Digits, d, d) = c) - 1

\* The number a string of decimal digits denotes.
RECURSIVE decimal(_)
decimal(s) ==
  IF Len(s) = 0 THEN 0
  ELSE decimal(SubSeq(s, 1, Len(s) - 1)) * 10 + digitValue(SubSeq(s, Len(s), Len(s)))

\* The decimal digits of a natural number, as template literals print it.
RECURSIVE toString(_)
toString(n) ==
  IF n < 10 THEN SubSeq(Digits, n + 1, n + 1)
  ELSE toString(n \div 10) \o SubSeq(Digits, (n % 10) + 1, (n % 10) + 1)

NaN == None

\* parseInt(s, 10): leading whitespace is skipped, a sign is read, then the
\* longest run of digits; what follows is ignored, and no digit gives NaN.
parseInt(s) ==
  LET start == Min({i \in 1..(Len(s) + 1) : ~isSpace(s, i)})
      signed == start <= Len(s) /\ SubSeq(s, start, start) \in {"+", "-"}
      first == IF signed THEN start + 1 ELSE start
      stop == Min({i \in first..(Len(s) + 1) :
                     i = Len(s) + 1 \/ ~isDigit(SubSeq(s, i, i))})
      magnitude == decimal(SubSeq(s, first, stop - 1))
  IN  IF stop = first THEN NaN
      ELSE Some(IF SubSeq(s, start, start) = "-" THEN 0 - magnitude ELSE magnitude)

\* spec.replaceAll(" ", "")
RECURSIVE replaceAllSpaces(_)
replaceAllSpaces(s) ==
  IF Len(s) = 0 THEN ""
  ELSE (IF SubSeq(s, 1, 1) = " " THEN "" ELSE SubSeq(s, 1, 1))
       \o replaceAllSpaces(SubSeq(s, 2, Len(s)))

\* String.prototype.split with a separator of one character
RECURSIVE split(_, _)
split(s, sep) ==
  LET hits == {i \in 1..Len(s) : SubSeq(s, i, i) = sep}
  IN  IF hits = {} THEN <<s>>
      ELSE <<SubSeq(s, 1, Min(hits) - 1)>>
           \o split(SubSeq(s, Min(hits) + 1, Len(s)), sep)

\* R.range(start, end): start, start + 1, ..., end - 1
range(start, end) == [i \in 1..(end - start) |-> start + i - 1]

\* R.unique(): the first occurrence of every element is kept
RECURSIVE unique(_)
unique(seq) ==
  IF seq = <<>> THEN <<>>
  ELSE LET front == SubSeq(seq, 1, Len(seq) - 1)
           last == seq[Len(seq)]
       IN  IF last \in Range(front) THEN unique(front) ELSE Append(unique(front), last)

\* R.sortBy(R.identity()): ascending
RECURSIVE sortBy(_)
sortBy(seq) ==
  IF seq = <<>> THEN <<>>
  ELSE LET least == Min(Range(seq))
           at == Min({i \in DOMAIN seq : seq[i] = least})
       IN  <<least>> \o sortBy(SubSeq(seq, 1, at - 1) \o SubSeq(seq, at + 1, Len(seq)))

SpecReturned(v) == [threw |-> FALSE, error |-> "", message |-> "", value |-> v]
SpecThrown(msg) == [threw |-> TRUE, error |-> "ValidationError", message |-> msg, value |-> <<>>]

\* const parsePart = (part: string): number[] => ...
parsePart(part) ==
  IF includes(part, "-")
    THEN LET pieces == split(part, "-")
             start == parseInt(pieces[1])
             end == parseInt(pieces[2])
         IN  IF ~start.def \/ ~end.def
               THEN SpecThrown("Invalid range: \"" \o part \o "\"")
             ELSE IF start.val > end.val
               THEN SpecThrown("Invalid range: start > end in \"" \o part \o "\"")
             ELSE SpecReturned(range(start.val, end.val + 1))
    ELSE LET num == parseInt(part)
         IN  IF ~num.def
               THEN SpecThrown("Invalid message number: \"" \o part \o "\"")
               ELSE SpecReturned(<<num.val>>)

\* R.flatMap(parsePart): the first part that throws ends the pipe
RECURSIVE flatMapParsePart(_)
flatMapParsePart(parts) ==
  IF parts = <<>> THEN SpecReturned(<<>>)
  ELSE LET head == parsePart(Head(parts))
           rest == flatMapParsePart(Tail(parts))
       IN  IF head.threw THEN head
           ELSE IF rest.threw THEN rest
           ELSE SpecReturned(head.value \o rest.value)

\* parseMessageSpec without R.unique() and R.sortBy().
parseMessageSpecAsWritten(spec, msgCount) ==
  LET pieces == split(replaceAllSpaces(spec), ",")
      flat == flatMapParsePart(filter(pieces, Range(pieces) \ {""}))
      indices == flat.value
      bad == {i \in DOMAIN indices : indices[i] < 1 \/ indices[i] > msgCount}
  IN  IF flat.threw THEN flat
      ELSE IF bad # {}
        THEN SpecThrown("Message " \o toString(indices[Min(bad)])
                        \o " does not exist (chat has " \o toString(msgCount)
                        \o " messages)")
      ELSE SpecReturned([i \in DOMAIN indices |-> indices[i] - 1])

\* export function parseMessageSpec(spec: string, msgCount: number): number[]
parseMessageSpec(spec, msgCount) ==
  LET pieces == split(replaceAllSpaces(spec), ",")
      flat == flatMapParsePart(filter(pieces, Range(pieces) \ {""}))
      indices == sortBy(unique(flat.value))
      bad == {i \in DOMAIN indices : indices[i] < 1 \/ indices[i] > msgCount}
  IN  IF flat.threw THEN flat
      ELSE IF bad # {}
        THEN SpecThrown("Message " \o toString(indices[Min(bad)])
                        \o " does not exist (chat has " \o toString(msgCount)
                        \o " messages)")
      ELSE SpecReturned([i \in DOMAIN indices |-> indices[i] - 1])

\* The parts message specs are written from: numbers and ranges, bare and
\* with spaces or a tab around them, in and out of range, a reversed range,
\* empty and blank parts, and parts that are not numbers.
Parts ==
  {"1", "3", " 2 ", "\t2", "0", "1-3", " 2 - 3 ", "3-1",
   "", " ", "abc", "a-b", "2x", "1-2-3"}

PartLists == UNION {[1..n -> Parts] : n \in 0..MaxParts}

MessageSpecs == {join(ps, ",") : ps \in PartLists}

NoSpecOut == SpecReturned(<<>>)

SpecIdle ==
  /\ messageSpec = ""
  /\ messageCount = 0
  /\ specOut = NoSpecOut
  /\ specPc = "idle"

SpecCall ==
  /\ messageSpec \in MessageSpecs
  /\ messageCount \in 0..MaxMsgCount
  /\ specOut = NoSpecOut
  /\ specPc = "call"

ParseMessageSpec ==
  /\ specPc = "call"
  /\ specOut' = parseMessageSpec(messageSpec, messageCount)
  /\ specPc' = "done"
  /\ UNCHANGED <<messageSpec, messageCount, costVars, resolveVars, toolsVars, sendVars, flowVars, bgVars, gemVars, sumVars>>

----------------------------------------------------------------------------
(* The cost geminiCreateMessage reports (src/adapters.ts:466-484).  Prices *)
(* are in thousandths of a dollar per million tokens, as for getCost.      *)

THRESHOLD == 200000

\* The Google entries of the three revisions of the catalog, with their
\* prices.
GoogleModels ==
  {[id |-> "gemini-2.5-pro", input |-> 1250, output |-> 10000,
    input_cached |-> None, search_cost |-> None],
   [id |-> "gemini-2.5-flash", input |-> 150, output |-> 600,
    input_cached |-> None, search_cost |-> None],
   [id |-> "gemini-2.5-flash-thinking", input |-> 150, output |-> 3500,
    input_cached |-> None, search_cost |-> None],
   [id |-> "gemini-2.5-pro", input |-> 1250, output |-> 10000,
    input_cached |-> Some(310), search_cost |-> None],
   [id |-> "gemini-2.5-flash", input |-> 300, output |-> 2500,
    input_cached |-> Some(75), search_cost |-> None],
   [id |-> "gemini-2.5-flash-lite", input |-> 100, output |-> 400,
    input_cached |-> Some(25), search_cost |-> None],
   [id |-> "gemini-3-pro", input |-> 2000, output |-> 12000,
    input_cached |-> Some(500), search_cost |-> Some(0)],
   [id |-> "gemini-3-flash", input |-> 500, output |-> 3000,
    input_cached |-> Some(125), search_cost |-> Some(0)],
   [id |-> "gemini-2.5-flash-lite", input |-> 100, output |-> 400,
    input_cached |-> Some(25), search_cost |-> Some(0)]}

\* The override applied from the threshold on, not only above it.
costModelFromThreshold(m, t) ==
  IF m.id = "gemini-2.5-pro" /\ t.input >= THRESHOLD
    THEN [m EXCEPT !.input = 2500, !.output = 15000]
    ELSE m

\* const costModel = model.id === "gemini-2.5-pro" && tokens.input > 200_000
\*   ? { ...model, input: 2.50, output: 15 } : model
costModel(m, t) ==
  IF m.id = "gemini-2.5-pro" /\ t.input > THRESHOLD
    THEN [m EXCEPT !.input = 2500, !.output = 15000]
    ELSE m

\* cost: getCost(costModel, tokens)
geminiCost(m, t) == getCost(costModel(m, t), t, None)

\* The token counts of a Google response: input at, just below and just
\* above the threshold; the cache-hit count is a number, 0 when absent.
GeminiTokenCounts ==
  [input : {1, THRESHOLD - 1, THRESHOLD, THRESHOLD + 1},
   output : 0..MaxTokens,
   input_cache_hit : {Some(0), Some(1)}]

NoGoogleModel ==
  [id |-> "", input |-> 0, output |-> 0, input_cached |-> None, search_cost |-> None]

GeminiIdle ==
  /\ gemModel = NoGoogleModel
  /\ gemTokens = NoTokens
  /\ gemCost = None
  /\ gemPc = "idle"

GeminiCall ==
  /\ gemModel \in GoogleModels
  /\ gemTokens \in GeminiTokenCounts
  /\ gemCost = None
  /\ gemPc = "call"

GeminiCost ==
  /\ gemPc = "call"
  /\ gemCost' = Some(geminiCost(gemModel, gemTokens))
  /\ gemPc' = "done"
  /\ UNCHANGED <<gemModel, gemTokens, costVars, resolveVars, toolsVars, sendVars, flowVars, bgVars, specVars, sumVars>>

----------------------------------------------------------------------------
(* genMissingSummaries (src/summarize.ts).  A chat is here a record of its *)
(* messages and its optional summary.                                      *)

\* `!chat.summary`: no summary, or the empty string
lacksSummary(chat) == ~(chat.summary.def /\ chat.summary.val # "")

\* The chats of a stored history: one or two exchanges, the summary absent,
\* empty or there.
SummarizedChats ==
  [messages : {<<UserMessage("hello"), AssistantMessage("kimi-k2", "hi")>>,
               <<UserMessage("hello"), AssistantMessage("kimi-k2", "hi"),
                 UserMessage("more"), AssistantMessage("kimi-k2", "yes")>>},
   summary : {NoString, Some(""), Some("old")}]

SummarizedHistories == UNION {[1..n -> SummarizedChats] : n \in 0..MaxChats}

\* What the provider answers a summarization request with: no message, a
\* message without content, a message with content.
SummaryReplies ==
  {[body |-> FALSE, text |-> NoString, thought |-> NoString, usage |-> SomeUsage],
   [body |-> TRUE, text |-> NoString, thought |-> NoString, usage |-> SomeUsage],
   [body |-> TRUE, text |-> Some("hi"), thought |-> NoString, usage |-> SomeUsage]}

\* resolveModel("llama-4-maverick") (src/summarize.ts:71)
summaryModel == resolveModel(models, Some("llama-4-maverick"))

\* What `await groqCreateMessage(...)` ends with: the request fails, or the
\* adapter deals with the reply.
SummaryOutcomes ==
  {SendThrown("APIError", "request failed")}
  \cup {makeOpenAIFunc("meta-llama/llama-4-maverick-17b-128e-instruct", r) :
          r \in SummaryReplies}

\* await Promise.all(...): every call started has fulfilled.
allFulfilled(calls) == \A i \in DOMAIN calls : calls[i] \in {"none", "fulfilled"}

SumIdle ==
  /\ sumKey = FALSE
  /\ sumGiven = <<>>
  /\ sumHistory = <<>>
  /\ sumOutcomes = <<>>
  /\ sumCalls = <<>>
  /\ sumStored = <<>>
  /\ sumPc = "idle"

\* The catalog summarize resolves its model in: any of the revisions.
SumCatalog ==
  /\ models \in Catalogs
  /\ modelArg = NoString
  /\ resolved = NoResult
  /\ resolvePc = "idle"

\* genMissingSummaries is called with the history as read from storage; the
\* outcome of the request for each chat is fixed by the provider.
SumCall ==
  /\ sumKey \in BOOLEAN
  /\ sumGiven \in SummarizedHistories
  /\ sumHistory = sumGiven
  /\ sumOutcomes \in [DOMAIN sumGiven -> SummaryOutcomes]
  /\ sumCalls = [i \in DOMAIN sumGiven |-> "none"]
  /\ sumStored = sumGiven
  /\ sumPc = "call"

\* src/summarize.ts:80-85 up to the await: without the key nothing is done;
\* otherwise summarize is called for every chat without a summary, each call
\* running up to its own await.  A call that throws before it gives a
\* rejected promise; with no call to wait for the history is written.
FireCalls ==
  /\ sumPc = "call"
  /\ IF ~sumKey
       THEN /\ sumPc' = "skipped"
            /\ UNCHANGED <<sumCalls, sumStored>>
       ELSE LET started == [i \in DOMAIN sumHistory |->
                              IF ~lacksSummary(sumHistory[i]) THEN "none"
                              ELSE IF summaryModel.threw THEN "rejected"
                              ELSE "pending"]
            IN  /\ sumCalls' = started
                /\ IF \E i \in DOMAIN started : started[i] = "rejected"
                     THEN sumPc' = "thrown" /\ UNCHANGED sumStored
                   ELSE IF allFulfilled(started)
                     THEN sumPc' = "written" /\ sumStored' = lastChats(sumHistory)
                   ELSE sumPc' = "awaiting" /\ UNCHANGED sumStored
  /\ UNCHANGED <<sumKey, sumGiven, sumHistory, sumOutcomes>>
  /\ UNCHANGED <<models, modelArg, resolved, resolvePc>>
  /\ UNCHANGED <<costVars, toolsVars, sendVars, flowVars, bgVars, specVars, gemVars>>

\* src/summarize.ts:62-75: the awaited request of the call for chat i
\* returns and `chat.summary = summary.content`; when it was the last call
\* outstanding, Promise.all resolves and the history is written (86).  A
\* call may also return after the function has thrown.
CallReturns(i) ==
  /\ sumPc \in {"awaiting", "thrown"}
  /\ sumCalls[i] = "pending"
  /\ ~sumOutcomes[i].threw
  /\ sumHistory' = [sumHistory EXCEPT ![i].summary = Some(sumOutcomes[i].content)]
  /\ sumCalls' = [sumCalls EXCEPT ![i] = "fulfilled"]
  /\ IF sumPc = "awaiting" /\ allFulfilled(sumCalls')
       THEN sumPc' = "written" /\ sumStored' = lastChats(sumHistory')
       ELSE UNCHANGED <<sumPc, sumStored>>
  /\ UNCHANGED <<sumKey, sumGiven, sumOutcomes>>
  /\ UNCHANGED <<models, modelArg, resolved, resolvePc>>
  /\ UNCHANGED <<costVars, toolsVars, sendVars, flowVars, bgVars, specVars, gemVars>>

\* The awaited request of the call for chat i fails: the call rejects, and
\* with it Promise.all and genMissingSummaries; nothing is written.
CallFails(i) ==
  /\ sumPc \in {"awaiting", "thrown"}
  /\ sumCalls[i] = "pending"
  /\ sumOutcomes[i].threw
  /\ sumCalls' = [sumCalls EXCEPT ![i] = "rejected"]
  /\ sumPc' = "thrown"
  /\ UNCHANGED <<sumKey, sumGiven, sumHistory, sumOutcomes, sumStored>>
  /\ UNCHANGED <<models, modelArg, resolved, resolvePc>>
  /\ UNCHANGED <<costVars, toolsVars, sendVars, flowVars, bgVars, specVars, gemVars>>

Returns == \E i \in DOMAIN sumCalls : CallReturns(i)
Fails == \E i \in DOMAIN sumCalls : CallFails(i)

----------------------------------------------------------------------------
(* Specifications                                                          *)

CostInit == CostCall /\ ResolveIdle /\ ToolsIdle /\ SendIdle /\ FlowIdle /\ BgIdle /\ SpecIdle /\ GeminiIdle /\ SumIdle
CostNext == GetCost
CostSpec == CostInit /\ [][CostNext]_vars

ResolveInit == ResolveCall /\ CostIdle /\ ToolsIdle /\ SendIdle /\ FlowIdle /\ BgIdle /\ SpecIdle /\ GeminiIdle /\ SumIdle
ResolveNext == ResolveModel
ResolveSpec == ResolveInit /\ [][ResolveNext]_vars

ToolsInit == ToolsCall /\ CostIdle /\ ResolveIdle /\ SendIdle /\ FlowIdle /\ BgIdle /\ SpecIdle /\ GeminiIdle /\ SumIdle
ToolsNext == ParseTools
ToolsSpec == ToolsInit /\ [][ToolsNext]_vars

SendInit == SendCall /\ CostIdle /\ ResolveIdle /\ ToolsIdle /\ FlowIdle /\ BgIdle /\ SpecIdle /\ GeminiIdle /\ SumIdle
SendNext == CreateMessage \/ ClientRejects \/ ProviderReplies \/ ProviderFails
SendSpec == SendInit /\ [][SendNext]_vars

FlowInit == FlowCall /\ SendPending /\ CostIdle /\ ResolveIdle /\ ToolsIdle /\ BgIdle /\ SpecIdle /\ GeminiIdle /\ SumIdle
FlowNext ==
  \/ Prepare
  \/ Resolve
  \/ Validate
  \/ CallAdapter
  \/ CreateMessage
  \/ ClientRejects
  \/ ProviderReplies
  \/ ProviderFails
  \/ Finish
  \/ Catch
FlowSpec == FlowInit /\ [][FlowNext]_vars

BgInit == BgCall /\ CostIdle /\ ResolveIdle /\ ToolsIdle /\ SendIdle /\ FlowIdle /\ SpecIdle /\ GeminiIdle /\ SumIdle
BgNext ==
  \/ Initiate
  \/ ProviderProgresses
  \/ Resume
  \/ PollStatus
  \/ ResumeEnds
  \/ ExitMidPoll
  \/ Cancel
  \/ CancelAcked
  \/ CancelFails
  \/ CancelExits
BgSpec == BgInit /\ [][BgNext]_vars

MessageSpecInit == SpecCall /\ CostIdle /\ ResolveIdle /\ ToolsIdle /\ SendIdle /\ FlowIdle /\ BgIdle /\ GeminiIdle /\ SumIdle
MessageSpecNext == ParseMessageSpec
MessageSpecSpec == MessageSpecInit /\ [][MessageSpecNext]_vars

GeminiInit == GeminiCall /\ CostIdle /\ ResolveIdle /\ ToolsIdle /\ SendIdle /\ FlowIdle /\ BgIdle /\ SpecIdle /\ SumIdle
GeminiNext == GeminiCost
GeminiSpec == GeminiInit /\ [][GeminiNext]_vars

SumInit == SumCall /\ SumCatalog /\ CostIdle /\ ToolsIdle /\ SendIdle /\ FlowIdle /\ BgIdle /\ SpecIdle /\ GeminiIdle
SumNext == FireCalls \/ Returns \/ Fails
SumSpec == SumInit /\ [][SumNext]_vars

----------------------------------------------------------------------------
(* Claims about getCost, checked under CostSpec.                           *)

CostDone == costPc = "done"
DefaultSearches == ~searches.def
HitCount == Coalesce(tokens.input_cache_hit, 0)

\* C1: for a model whose cached-input price is defined (0 or positive) and
\* token counts with 0 < input_cache_hit <= input, getCost(model, tokens)
\* is (input_cached * hit + input * (tokens.input - hit)
\* + output * tokens.output) / 1,000,000.
C1_CachedPriceFormula ==
  (/\ CostDone
   /\ DefaultSearches
   /\ model.input_cached.def
   /\ tokens.input_cache_hit.def
   /\ 0 < HitCount
   /\ HitCount <= tokens.input)
  => cost.val = (model.input_cached.val * HitCount)
                + (model.input * (tokens.input - HitCount))
                + (model.output * tokens.output)

\* C2: for a model with no cached-input price, getCost(model, tokens) is
\* (input * tokens.input + output * tokens.output) / 1,000,000 whatever
\* input_cache_hit is.
C2_NoCachedPriceIgnoresHit ==
  (CostDone /\ DefaultSearches /\ ~model.input_cached.def)
  => cost.val = (model.input * tokens.input) + (model.output * tokens.output)

C2_Witness ==
  /\ CostDone
  /\ DefaultSearches
  /\ ~model.input_cached.def
  /\ model.input > 0
  /\ 0 < HitCount
  /\ HitCount < tokens.input
  /\ cost.val = (model.input * tokens.input) + (model.output * tokens.output)

\* C3 as stated: for non-negative prices and non-negative input, output,
\* input_cache_hit and search count, the cost getCost returns is >= 0.
C3_NeverNegative == CostDone => cost.val >= 0

\* C3 as amended: the same, for token counts with input_cache_hit <= input.
C3_NeverNegativeWithinInput ==
  (CostDone /\ HitCount <= tokens.input) => cost.val >= 0

C3_Witness ==
  /\ CostDone
  /\ Truthy(model.input_cached)
  /\ 0 < HitCount
  /\ HitCount < tokens.input
  /\ model.input > 0
  /\ cost.val > 0

\* C4: with input = 0, output = 0, no cache hits and the default search
\* count, getCost returns exactly 0 for every model.
C4_ZeroTokensZeroCost ==
  (/\ CostDone
   /\ DefaultSearches
   /\ tokens.input = 0
   /\ tokens.output = 0
   /\ HitCount = 0)
  => cost.val = 0

C4_Witness ==
  /\ CostDone
  /\ DefaultSearches
  /\ tokens.input = 0
  /\ tokens.output = 0
  /\ HitCount = 0
  /\ Truthy(model.input_cached)
  /\ Truthy(model.search_cost)
  /\ model.input > 0
  /\ model.output > 0
  /\ cost.val = 0

\* C5: getCost(model, tokens, n) is the token cost plus search_cost * n
\* when the model defines search_cost, and the token cost alone when it
\* does not; n is 0 when the argument is left out.
C5_SearchCostAdded ==
  CostDone =>
    LET n == IF searches.def THEN searches.val ELSE 0
    IN  cost.val = tokenCost(model, tokens)
                   + (IF model.search_cost.def THEN M * model.search_cost.val * n ELSE 0)

C5_Witness ==
  /\ CostDone
  /\ Truthy(model.search_cost)
  /\ searches.def
  /\ searches.val > 1
  /\ tokenCost(model, tokens) > 0
  /\ cost.val = tokenCost(model, tokens) + (M * model.search_cost.val * searches.val)

----------------------------------------------------------------------------
(* Claims about resolveModel, checked under ResolveSpec.                   *)

ResolveDone == resolvePc = "done"
Lower == toLowerCase(modelArg.val)
DefaultEntries == {i \in DOMAIN models : models[i].default}
ExactEntries == {i \in DOMAIN models : models[i].key = Lower \/ models[i].id = Lower}
ContainingEntries ==
  {i \in DOMAIN models : includes(models[i].key, Lower) \/ includes(models[i].id, Lower)}

\* C6: exactly one catalog entry is flagged default, and
\* resolveModel(undefined) returns that entry.
C6_UniqueDefaultResolved ==
  /\ Cardinality(DefaultEntries) = 1
  /\ (ResolveDone /\ ~modelArg.def)
     => (~resolved.threw /\ resolved.match \in DefaultEntries)

C6_Witness ==
  /\ ResolveDone
  /\ ~modelArg.def
  /\ resolved.match > 1
  /\ models[resolved.match].default

\* C7: when some entry's key or id equals the lower-cased query,
\* resolveModel returns the first such entry, also when an earlier entry
\* contains the query as a substring.
C7_ExactMatchPreferred ==
  (ResolveDone /\ modelArg.def /\ ExactEntries # {})
  => (~resolved.threw /\ resolved.match = Min(ExactEntries))

C7_Witness ==
  /\ ResolveDone
  /\ modelArg.def
  /\ ExactEntries # {}
  /\ resolved.match = Min(ExactEntries)
  /\ \E i \in ContainingEntries : i < resolved.match

\* C8: when no entry's key or id equals the lower-cased query, resolveModel
\* returns the first entry in catalog order whose key or id contains it.
C8_FirstSubstringMatch ==
  (ResolveDone /\ modelArg.def /\ ExactEntries = {} /\ ContainingEntries # {})
  => (~resolved.threw /\ resolved.match = Min(ContainingEntries))

C8_Witness ==
  /\ ResolveDone
  /\ modelArg.def
  /\ ExactEntries = {}
  /\ Cardinality(ContainingEntries) > 1
  /\ Len(modelArg.val) > 1
  /\ resolved.match = Min(ContainingEntries)

\* C9: resolveModel gives every re-casing of a query the outcome it gives
\* the query: the same entry, or a failure for both.
C9_CaseInsensitive ==
  (ResolveDone /\ modelArg.def)
  => \A q \in Recasings(modelArg.val) :
       LET other == resolveModel(models, Some(q))
       IN  other.threw = resolved.threw /\ other.match = resolved.match

C9_Witness ==
  /\ ResolveDone
  /\ modelArg.def
  /\ modelArg.val # Lower
  /\ Lower # toUpperCase(Lower)
  /\ ~resolved.threw
  /\ resolved.match = resolveModel(models, Some(Lower)).match

\* C10: for a query that no key or id equals or contains, resolveModel
\* returns no model: it raises a ValidationError whose message contains
\* the query as the user gave it.
C10_NotFoundCarriesQuery ==
  (ResolveDone /\ modelArg.def /\ ContainingEntries = {})
  => /\ resolved.threw
     /\ resolved.error = "ValidationError"
     /\ resolved.match = 0
     /\ includes(resolved.message, modelArg.val)

C10_Witness ==
  /\ ResolveDone
  /\ modelArg.def
  /\ ContainingEntries = {}
  /\ modelArg.val # Lower
  /\ resolved.threw
  /\ includes(resolved.message, modelArg.val)


----------------------------------------------------------------------------
(* Claims about parseTools                                                 *)

ToolsDone == toolsPc = "done"

HasAllowList == provider \in DOMAIN providerTools

\* The requested tools that are not in the provider's allow-list.
Offending == Range(tools) \ Range(providerTools[provider])

\* C11: for a provider that has an allow-list and a non-empty list of
\* requested tools, parseTools succeeds exactly when every requested tool is
\* in the allow-list; on success it returns the requested tools unchanged,
\* and on failure it raises a ValidationError whose message names every
\* offending tool (as a code span) and lists the provider's whole allow-list.
C11_AllowListDecides ==
  (ToolsDone /\ HasAllowList /\ tools # <<>>)
  => /\ ~parsed.threw <=> Offending = {}
     /\ ~parsed.threw => parsed.value = tools
     /\ parsed.threw =>
          /\ parsed.error = "ValidationError"
          /\ \A t \in Offending : includes(parsed.message, codeMd(t))
          /\ includes(parsed.message, join(providerTools[provider], ","))
          /\ \A a \in Range(providerTools[provider]) : includes(parsed.message, a)

C11_Witness ==
  /\ ToolsDone
  /\ HasAllowList
  /\ Len(tools) = 2
  /\ Cardinality(Offending) = 2
  /\ parsed.threw
  /\ \A t \in Offending : includes(parsed.message, codeMd(t))

\* C12: with an empty list of requested tools parseTools returns the empty
\* list and raises nothing, whatever the provider id: one with an
\* allow-list, one without, or one that no catalog has.
C12_EmptyToolsAlwaysAccepted ==
  (ToolsDone /\ tools = <<>>) => (~parsed.threw /\ parsed.value = <<>>)

C12_Witness ==
  /\ ToolsDone
  /\ tools = <<>>
  /\ ~HasAllowList
  /\ ~parsed.threw
  /\ parsed.value = <<>>

\* C13: for a provider id that has no entry in providerTools and a
\* non-empty list of requested tools, parseTools raises the ValidationError
\* that says tools are not available for the provider, whatever the tools.
C13_NoEntryRejected ==
  (ToolsDone /\ ~HasAllowList /\ tools # <<>>)
  => /\ parsed.threw
     /\ parsed.error = "ValidationError"
     /\ parsed.message = "Tools can only be used with Google and Anthropic models"

\* The case C13 fails on: an id that is a property name of Object.prototype.
C13_Witness ==
  /\ ToolsDone
  /\ ~HasAllowList
  /\ tools # <<>>
  /\ provider \in ObjectPrototypeKeys
  /\ parsed.threw
  /\ parsed.error = "TypeError"


----------------------------------------------------------------------------
(* Claims about the adapters and the message flow                          *)

SendDone == sendPc = "done"

\* The provider has answered and the adapter has dealt with the answer.
Answered == SendDone /\ reply # NoReply

KeyMissing == sendModel # NoSendModel /\ envVarName(sendModel.provider) \notin env

\* The tools of the run are not valid for the provider of the resolved model.
ToolsRejected ==
  flowModel # NoSendModel /\ parseTools(flowModel.provider, opts.tools).threw

\* C14: in the message flow the tools are validated before the adapter is
\* called: in no state of a run whose tools fail validation has a request
\* been issued to a provider or the adapter been entered, and the
\* validation step itself issues no request and leaves the history, in
\* memory and stored, and the send state as they were.
C14_ValidationBeforeAdapter ==
  /\ [](ToolsRejected => (netCalls = 0 /\ sendPc = "idle"))
  /\ [][Validate => UNCHANGED <<netCalls, stored, history, sendVars>>]_vars

C14_Witness ==
  /\ flowPc = "rejected"
  /\ ToolsRejected
  /\ opts.tools # <<>>
  /\ netCalls = 0
  /\ sendPc = "idle"

\* C15: in the chat-completions adapter, for a message content made of an
\* optional opening tag, a reasoning text, the closing tag, whitespace or
\* none, and an answer (and no separate reasoning field), the returned
\* reasoning is the reasoning text and the returned content is the answer
\* alone.
C15_InlineReasoningExtracted ==
  \A o \in Opens, rs \in Reasonings, g \in Gaps, a \in Answers :
    ( /\ Answered
      /\ adapterOf(sendModel.provider) = "chat"
      /\ reply.body
      /\ ~reply.thought.def
      /\ reply.text = Some(o \o rs \o CloseTag \o g \o a) )
    => (response.reasoning = rs /\ response.content = a)

\* The case C15 fails on: the answer follows the closing tag directly.
C15_Witness ==
  /\ Answered
  /\ adapterOf(sendModel.provider) = "chat"
  /\ reply.text = Some("<think>r</think>ok")
  /\ ~reply.thought.def
  /\ response.content = "<think>r</think>ok"
  /\ response.reasoning = ""

\* C16: whichever adapter, a response whose message body is absent or
\* empty makes the send fail: no result with empty content is returned.
C16_EmptyBodyFails ==
  (Answered /\ (~reply.body \/ OrEmpty(reply.text) = "")) => response.threw

\* The case C16 fails on: an empty body returned as empty content.
C16_Witness ==
  /\ Answered
  /\ reply.body
  /\ OrEmpty(reply.text) = ""
  /\ ~response.threw
  /\ response.content = ""

\* C17: whichever adapter, when the variable holding its provider's key is
\* not set, no request is issued and the send fails with an error whose
\* message names that variable.
C17_MissingKeyFailsFast ==
  (KeyMissing /\ sendPc \in {"await", "done"})
  => /\ netCalls = 0
     /\ SendDone => (response.threw /\ includes(response.message, envVarName(sendModel.provider)))

\* The case C17 fails on: a chat-completions provider without its key.
C17_Witness ==
  /\ KeyMissing
  /\ SendDone
  /\ adapterOf(sendModel.provider) = "chat"
  /\ \/ netCalls = 1
     \/ response.threw /\ ~includes(response.message, envVarName(sendModel.provider))

C19_TokenCountsWellFormed ==
  (Answered /\ ~response.threw)
  => /\ response.tokens.input >= 0
     /\ response.tokens.output.def
     /\ response.tokens.output.val >= 0
     /\ response.tokens.input_cache_hit >= 0
     /\ response.tokens.input_cache_hit <= response.tokens.input

\* The case C19 fails on: more cached tokens reported than prompt tokens.
C19_Witness ==
  /\ Answered
  /\ ~response.threw
  /\ adapterOf(sendModel.provider) = "chat"
  /\ response.tokens.input_cache_hit > response.tokens.input

\* C20: whichever adapter, a response without usage data gives a result
\* whose token counts are all 0, not a failure and not undefined counts.
C20_NoUsageGivesZeros ==
  (Answered /\ ~reply.usage.def)
  => /\ ~response.threw
     /\ response.tokens = [input |-> 0, output |-> Some(0), input_cache_hit |-> 0]

\* The case C20 fails on: the Anthropic adapter reads usage unguarded.
C20_Witness ==
  /\ Answered
  /\ ~reply.usage.def
  /\ adapterOf(sendModel.provider) = "anthropic"
  /\ response.threw
  /\ response.error = "TypeError"


----------------------------------------------------------------------------
(* Claims about background completions, checked under BgSpec.              *)

\* C21: resume polls only while the last status it observed is queued or
\* in_progress, and makes no further poll once it has observed a terminal
\* status; when it ends, the status is terminal, it yields a response with
\* content exactly when that status is completed, and for any other
\* terminal status it reports the status, without content and without
\* raising an error.
C21_ResumePollsWhileActive ==
  /\ [][polls' # polls => (bgPc = "polling" /\ observed \in ActiveStatuses)]_vars
  /\ [](bgPc = "resumed" =>
          /\ observed \in TerminalStatuses
          /\ bgOut.kind = "response" <=> observed = "completed"
          /\ bgOut.content <=> observed = "completed"
          /\ observed # "completed" => (bgOut.kind = "status" /\ bgOut.status = observed)
          /\ ~bgOut.threw)

C21_Witness ==
  /\ bgPc = "resumed"
  /\ polls >= 2
  /\ observed = "failed"
  /\ bgOut.kind = "status"
  /\ ~bgOut.content

\* C22: in every state the chat carries a background task exactly when a
\* background completion has been initiated for it and neither has resume
\* ended on a terminal status nor has cancel been invoked.
C22_TaskPresentWhileOutstanding ==
  bgTask.def <=> (remote # "none" /\ bgOut.kind = "none" /\ cancelState = "none")

C22_Witness ==
  /\ bgPc = "resumed"
  /\ observed = "errored"
  /\ ~bgTask.def
  /\ cancelState = "none"

\* C23: once cancel has been invoked the chat carries no background task,
\* whether the provider has confirmed the cancellation, the request has
\* failed, or it is unanswered when the command exits.
C23_CancelClearsTask ==
  cancelState # "none" => ~bgTask.def

C23_Witness ==
  /\ bgPc = "cancelled"
  /\ cancelState = "pending"
  /\ remote \in ActiveStatuses
  /\ ~bgTask.def

----------------------------------------------------------------------------
(* C24 *)

\* The exchange of a run: a user message followed by an assistant message.
IsExchange(ms) ==
  /\ Len(ms) = 2
  /\ ms[1].role = "user"
  /\ ms[2].role = "assistant"

\* Chat c, grown by one exchange or left as it was, is chat d.
GrownOrSame(c, d) ==
  \/ d = c
  \/ /\ Len(d) = Len(c) + 2
     /\ SubSeq(d, 1, Len(c)) = c
     /\ IsExchange(SubSeq(d, Len(c) + 1, Len(d)))

\* C24: a chat's message list is append-only.  In every step of the message
\* flow each chat of the history in memory keeps its place and its messages,
\* except that the last chat may grow by exactly one user message followed
\* by one assistant message; and when the stored history changes, its chats
\* are chats it held before, in order, the last one grown by exactly that
\* exchange or a new chat of just that exchange.
C24_MessagesAppendOnly ==
  /\ [][\A i \in DOMAIN history :
          /\ i \in DOMAIN history'
          /\ GrownOrSame(history[i], history'[i])
          /\ history'[i] # history[i] => i = Len(history)]_vars
  /\ [][flowPc = "start" =>
          \A i \in DOMAIN stored :
            i \in DOMAIN history' => history'[i] = stored[i]]_vars
  /\ [][stored' # stored =>
          LET n == Len(stored')
              m == Len(stored)
          IN  /\ n >= 1
              /\ \/ /\ m >= 1
                    /\ n = m
                    /\ SubSeq(stored', 1, n - 1) = SubSeq(stored, 1, m - 1)
                    /\ stored'[n] # stored[m]
                    /\ GrownOrSame(stored[m], stored'[n])
                 \/ /\ IsExchange(stored'[n])
                    /\ n - 1 <= m
                    /\ SubSeq(stored', 1, n - 1) = SubSeq(stored, m - n + 2, m)]_vars

C24_Witness ==
  /\ flowPc = "done"
  /\ opts.reply
  /\ Len(stored) = 1
  /\ Len(stored[1]) = 4
  /\ stored[1][1] = UserMessage("hello")
  /\ stored[1][3] = UserMessage("input")

----------------------------------------------------------------------------
(* C25 *)

SpecDone == specPc = "done"

\* The parts of the spec as written, and the shapes the claim speaks of: a
\* number or a range start-end with start <= end, bare or with whitespace
\* around it, an empty or blank part, and a range with start > end.
WrittenParts == split(messageSpec, ",")
NumberOrRange == {"1", "3", " 2 ", "\t2", "0", "1-3", " 2 - 3 ", "", " "}
ReversedRange == {"3-1"}

\* The numbers a part names, read off the part as it is written.
NamedBy(part) ==
  CASE part = "1" -> {1}
    [] part = "3" -> {3}
    [] part \in {" 2 ", "\t2"} -> {2}
    [] part = "0" -> {0}
    [] part = "1-3" -> {1, 2, 3}
    [] part = " 2 - 3 " -> {2, 3}
    [] OTHER -> {}

Named == UNION {NamedBy(WrittenParts[i]) : i \in DOMAIN WrittenParts}

\* A part without the whitespace before and after it.
RECURSIVE trim(_)
trim(s) ==
  IF Len(s) = 0 THEN s
  ELSE IF isSpace(s, 1) THEN trim(SubSeq(s, 2, Len(s)))
  ELSE IF isSpace(s, Len(s)) THEN trim(SubSeq(s, 1, Len(s) - 1))
  ELSE s

\* The same parts in reverse order, written twice, and trimmed.
Reordered == [i \in DOMAIN WrittenParts |-> WrittenParts[Len(WrittenParts) + 1 - i]]
Repeated == WrittenParts \o WrittenParts
Trimmed == [i \in DOMAIN WrittenParts |-> trim(WrittenParts[i])]

\* C25: an accepted message spec yields a strictly ascending (hence
\* duplicate-free) list of indices within 0..msgCount - 1; when its parts
\* are numbers and ranges the list holds exactly n - 1 for every number n
\* named by a part or lying in a named range; the result is the same with
\* the parts reordered, repeated or stripped of surrounding whitespace; and
\* a spec with a part naming a number below 1 or above msgCount, or a range
\* with start > end, is rejected with a ValidationError.
C25_MessageSpecIndices ==
  SpecDone =>
    /\ ~specOut.threw =>
          /\ \A i, j \in DOMAIN specOut.value :
                i < j => specOut.value[i] < specOut.value[j]
          /\ \A i \in DOMAIN specOut.value :
                specOut.value[i] \in 0..(messageCount - 1)
          /\ Range(WrittenParts) \subseteq NumberOrRange =>
                Range(specOut.value) = {n - 1 : n \in Named}
          /\ parseMessageSpec(join(Reordered, ","), messageCount) = specOut
          /\ parseMessageSpec(join(Repeated, ","), messageCount) = specOut
          /\ parseMessageSpec(join(Trimmed, ","), messageCount) = specOut
    /\ (\/ Range(WrittenParts) \cap ReversedRange # {}
        \/ \E n \in Named : n < 1 \/ n > messageCount) =>
          /\ specOut.threw
          /\ specOut.error = "ValidationError"

C25_Witness ==
  /\ SpecDone
  /\ messageSpec = "3, 2 - 3 ,1"
  /\ messageCount = 3
  /\ specOut = SpecReturned(<<0, 1, 2>>)

----------------------------------------------------------------------------
(* C26 *)

GeminiDone == gemPc = "done"

\* The cost of the token counts at input price pin and output price pout,
\* with the cached price of the entry for the cache hits when both are set.
Priced(pin, pout) ==
  IF Truthy(gemModel.input_cached) /\ Truthy(gemTokens.input_cache_hit)
    THEN gemModel.input_cached.val * gemTokens.input_cache_hit.val
         + pin * (gemTokens.input - gemTokens.input_cache_hit.val)
         + pout * gemTokens.output
    ELSE pin * gemTokens.input + pout * gemTokens.output

----------------------------------------------------------------------------
(* C27 *)

\* C27: in the chat-completions adapter the returned output token count is
\* completion_tokens plus completion_tokens_details.reasoning_tokens for
\* xAI models, an absent count reading as 0, and completion_tokens alone
\* for every other provider of the family.
C27_GrokReasoningTokensAdded ==
  (Answered /\ adapterOf(sendModel.provider) = "chat" /\ ~response.threw) =>
    LET completion == IF reply.usage.def /\ reply.usage.val.output.def
                        THEN reply.usage.val.output.val ELSE 0
        detail == IF reply.usage.def /\ reply.usage.val.extra.def
                    THEN reply.usage.val.extra.val ELSE 0
    IN  response.tokens.output =
          Some(IF sendModel.provider = "xai" THEN completion + detail ELSE completion)

C27_Witness ==
  /\ Answered
  /\ sendModel.provider = "xai"
  /\ reply.usage.def
  /\ reply.usage.val.output = Some(1)
  /\ reply.usage.val.extra = Some(1)
  /\ response.tokens.output = Some(2)

----------------------------------------------------------------------------
(* C28 *)

SumWritten == sumPc = "written"

\* C28: the history genMissingSummaries writes is the same whatever the
\* order in which the calls complete.  When it has been written, every call
\* has completed; every chat that lacked a summary has one, the content its
\* own call returned; every chat that had a summary is as it was given; and
\* every message list is as it was given.
C28_SummariesIndependent ==
  SumWritten =>
    /\ allFulfilled(sumCalls)
    /\ DOMAIN sumStored = DOMAIN sumGiven
    /\ \A i \in DOMAIN sumGiven :
          /\ sumStored[i].messages = sumGiven[i].messages
          /\ IF lacksSummary(sumGiven[i])
               THEN /\ sumStored[i].summary = Some(sumOutcomes[i].content)
                    /\ ~lacksSummary(sumStored[i])
               ELSE sumStored[i] = sumGiven[i]

\* The case C28 fails on: the history is written with a chat whose call
\* returned an empty content, so that the chat is still without a summary.
C28_Witness ==
  /\ SumWritten
  /\ \E i \in DOMAIN sumGiven :
        /\ lacksSummary(sumGiven[i])
        /\ sumCalls[i] = "fulfilled"
        /\ sumStored[i].summary = Some("")
        /\ lacksSummary(sumStored[i])

----------------------------------------------------------------------------
(* C29 *)

\* C29: when the adapter call fails in the message flow, no message has
\* been appended and nothing is written: the history in memory is the stored
\* one, with the new empty chat when a new chat was started; the step into
\* the failure changes neither; and the stored history changes only in the
\* step that ends a successful run.
C29_FailureLeavesHistory ==
  /\ [](flowPc = "failed" =>
          /\ response.threw
          /\ history \in {stored, Append(stored, <<>>)})
  /\ [][flowPc' = "failed" => (stored' = stored /\ history' = history)]_vars
  /\ [][stored' # stored => (flowPc' = "done" /\ ~response.threw)]_vars

C29_Witness ==
  /\ flowPc = "failed"
  /\ response.threw
  /\ ~opts.reply
  /\ Len(stored) = 1
  /\ history = Append(stored, <<>>)

----------------------------------------------------------------------------
(* C30 *)

\* C30: the id of every catalog entry resolves back to that entry: when
\* resolveModel is given the id of entry i it returns entry i, no other
\* entry's key or id taking its place; so a reply continues with the model
\* whose id the last assistant message stores.
C30_IdResolvesToOwnEntry ==
  ResolveDone =>
    \A i \in DOMAIN models :
      modelArg = Some(models[i].id) => (~resolved.threw /\ resolved.match = i)

C30_Witness ==
  /\ ResolveDone
  /\ \E i \in DOMAIN models :
        /\ modelArg = Some(models[i].id)
        /\ resolved.match = i
        /\ \E j \in DOMAIN models : j # i /\ models[j].key = models[i].id

====
